---- MODULE Spec2Model ----
(***************************************************************************)
(* Model of the shape-packing feasibility checker of src/6/index.ts        *)
(* (Day 12): getVariants, getShapePlacements, the three memoization caches *)
(* and canFitRegion, together with the exact-cover search that             *)
(* canFitRegion drives through the dancing-links package.                  *)
(* The scripts of the other days follow it: the fresh-id ranges of Day 5,  *)
(* the tile polygon of Day 9, the button machines of Day 10, the device    *)
(* graph of Day 11, the roll sweep of Day 4 and its GridVisualization.     *)
(***************************************************************************)
EXTENDS Integers, Sequences, FiniteSets, TLC

VARIABLES
  gv,               \* getVariants in progress: shape, loop counter r, current, seen, variants
  gp,               \* getShapePlacements in progress: shape, grid size, variant index, placements
  shapes,           \* the shape catalog handed to canFitRegion
  region,           \* the region of the canFitRegion call in progress
  pc,               \* position of the canFitRegion call
  result,           \* what the call returned: "none", "true", "false" or "error"
  variantCache,     \* Map<number, number[][][]>
  placementCache,   \* Map<string, number[][]>
  shapeCellCounts,  \* Map<number, number>
  matrix,           \* the constraint rows handed to addSparseConstraints
  links,            \* the solver's node links and column sizes
  stack,            \* the search's recursion stack: chosen column, covered row
  probe,            \* instrumentation of the call: placement enumerations, solver creations
  calls,            \* the number of canFitRegion calls made so far
  day9,             \* src/9/index-2.ts: tiles, tileA, tileB and what isValidRectangle returned
  day10,            \* Day 10 part 1: the machine and what minPresses returned
  day11,            \* Day 11 part 2: graph, memo, case1, case2
  day5,             \* Day 5: ranges, sortedRanges, mergedRanges, numberOfFreshIds
  day4,             \* src/4/index.ts: matrix, row, col, totalValidRolls, previousTotalValid
  vis               \* GridVisualization: grid, step, isComplete, the timers

vars == <<gv, gp, shapes, region, pc, result, variantCache, placementCache,
          shapeCellCounts, matrix, links, stack, probe, calls,
          day9, day10, day11, day5, day4, vis>>

\* the state of the other scripts
otherDays == <<day9, day10, day11, day5, day4, vis>>

\* a script that is not running
Off == [st |-> "off"]

OtherDaysOff ==
  /\ day9 = Off
  /\ day10 = Off
  /\ day11 = Off
  /\ day5 = Off
  /\ day4 = Off
  /\ vis = Off

----------------------------------------------------------------------------
(* Bounds of the model. *)

\* largest grid width of a region
MaxWidth == 3
\* largest grid height of a region
MaxHeight == 3
\* largest required count of one shape in a region
MaxCount == 3
\* longest count list of a region
MaxPieces == 2
\* largest grid side in the placement enumeration on its own
MaxGrid == 3
\* most getCachedVariants requests in one run
MaxRequests == 3
\* most canFitRegion calls in one run of the main loop
MaxCalls == 2
\* largest required count in a region of the main loop
MaxCallCount == 2

(* Program constants. *)

\* parseShapes: height: 3
ShapeHeight == 3
\* parseShapes: width: 3
ShapeWidth == 3
\* getVariants: for (let r = 0; r < 4; r++)
NumRotations == 4

----------------------------------------------------------------------------
(* Helpers on sequences and sets of numbers. *)

Range(s) == {s[i] : i \in 1..Len(s)}

Min(S) == CHOOSE x \in S : \A y \in S : x <= y

Max(S) == CHOOSE x \in S : \A y \in S : x >= y

Reverse(s) == [i \in 1..Len(s) |-> s[Len(s) - i + 1]]

RECURSIVE Concat(_)
\* the concatenation of a sequence of sequences
Concat(ss) == IF ss = <<>> THEN <<>> ELSE Head(ss) \o Concat(Tail(ss))

RECURSIVE SumSeq(_)
SumSeq(s) == IF s = <<>> THEN 0 ELSE Head(s) + SumSeq(Tail(s))

\* row.some((c) => c === 1)
HasFilled(row) == \E i \in 1..Len(row) : row[i] = 1

\* number of cells equal to 1 in a grid
FilledCount(grid) == SumSeq([y \in 1..Len(grid) |->
                        Cardinality({x \in 1..Len(grid[y]) : grid[y][x] = 1})])

----------------------------------------------------------------------------
(* getVariants: src/6/index.ts lines 198-284. *)

\* Convert flat matrix to 2D grid
toGrid(m, width, height) ==
  [y \in 1..height |-> SubSeq(m, (y - 1) * width + 1, y * width)]

\* Rotate 90 degrees clockwise
rotate(grid) ==
  LET h == Len(grid)
      w == Len(grid[1])
  IN [x \in 1..w |-> [k \in 1..h |-> grid[h - k + 1][x]]]

\* Flip horizontally
flip(grid) == [y \in 1..Len(grid) |-> Reverse(grid[y])]

\* Remove empty rows: grid.filter((row) => row.some((c) => c === 1))
FilterRows(grid) == SelectSeq(grid, HasFilled)

\* Find bounds: the columns holding a filled cell
FilledColumns(filtered) ==
  {c \in 1..Len(filtered[1]) : \E y \in 1..Len(filtered) : filtered[y][c] = 1}

\* a slice that stops one column early
SliceColumnsShort(filtered, minCol, maxCol) ==
  [y \in 1..Len(filtered) |-> SubSeq(filtered[y], minCol, maxCol - 1)]

\* Extract bounded region: filtered.map((row) => row.slice(minCol, maxCol + 1))
SliceColumns(filtered, minCol, maxCol) ==
  [y \in 1..Len(filtered) |-> SubSeq(filtered[y], minCol, maxCol)]

\* the part of normalize after the row filter
NormalizeFiltered(filtered, cols) ==
  IF Len(filtered) = 0 THEN << <<>> >>
  ELSE SliceColumns(filtered, Min(cols), Max(cols))

\* the filled columns of the filtered rows (none when no row is left)
BoundsOf(filtered) == IF Len(filtered) = 0 THEN {} ELSE FilledColumns(filtered)

\* the columns are cut only after the filter
NormalizeRows(filtered) == NormalizeFiltered(filtered, BoundsOf(filtered))

\* Normalize: remove empty rows, then cut the columns to [minCol, maxCol]
normalize(grid) == NormalizeRows(FilterRows(grid))

\* row.join(""): each cell as its decimal digit
RowKey(row) == [i \in 1..Len(row) |-> IF row[i] = 1 THEN "1" ELSE "0"]

RECURSIVE JoinBar(_)
\* rows.join("|")
JoinBar(keys) ==
  IF keys = <<>> THEN <<>>
  ELSE IF Len(keys) = 1 THEN keys[1]
  ELSE keys[1] \o <<"|">> \o JoinBar(Tail(keys))

\* gridToKey: the grid as a string, here the sequence of its characters
gridToKey(grid) == JoinBar([y \in 1..Len(grid) |-> RowKey(grid[y])])

\* seen.has(key), answered as if nothing had been seen
SeenHasNever(seen, key) == FALSE

\* seen.has(key)
SeenHas(seen, key) == key \in seen

\* if (!seen.has(key)) { seen.add(key); variants.push(norm); }
PushKeyed(st, norm, key) ==
  IF SeenHas(st.seen, key)
    THEN st
    ELSE [st EXCEPT !.seen = @ \cup {key}, !.variants = Append(@, norm)]

\* const key = gridToKey(norm), then the push
PushNorm(st, norm) == PushKeyed(st, norm, gridToKey(norm))

\* const norm = normalize(grid), then the key and the push
PushUnseen(st, grid) == PushNorm(st, normalize(grid))

\* the state of the loop before its first iteration
VariantStart(shape) ==
  [current |-> toGrid(shape.matrix, shape.width, shape.height),
   seen |-> {}, variants |-> <<>>]

\* one iteration of the rotation loop: the grid, its flip, then the rotation
VariantIter(st) ==
  [PushUnseen(PushUnseen(st, st.current), flip(st.current))
     EXCEPT !.current = rotate(st.current)]

RECURSIVE VariantLoop(_, _)
VariantLoop(st, n) == IF n = 0 THEN st ELSE VariantLoop(VariantIter(st), n - 1)

getVariants(shape) == VariantLoop(VariantStart(shape), NumRotations).variants

----------------------------------------------------------------------------
(* Shapes: every 3x3 template parseShapes can produce. *)

Pentomino(id, m) ==
  [id |-> id, height |-> ShapeHeight, width |-> ShapeWidth, matrix |-> m]

AllMatrices == [1..(ShapeHeight * ShapeWidth) -> {0, 1}]

----------------------------------------------------------------------------
(* getShapePlacements and the caches: src/6/index.ts lines 286-351. *)

\* cells.push((py + y) * gridWidth + (px + x)), with the coordinates swapped
CellIndexSwapped(y, x, gridWidth) == x * gridWidth + y

\* (py + y) * gridWidth + (px + x)
CellIndex(y, x, gridWidth) == y * gridWidth + x

\* the number of anchors p with 0 <= p < gridSide - variantSide
AnchorCountShort(gridSide, variantSide) ==
  IF gridSide - variantSide > 0 THEN gridSide - variantSide ELSE 0

\* the number of anchors p with 0 <= p <= gridSide - variantSide
AnchorCount(gridSide, variantSide) ==
  IF gridSide - variantSide + 1 > 0 THEN gridSide - variantSide + 1 ELSE 0

\* variant[0]?.length || 0
VariantWidth(variant) == IF Len(variant) = 0 THEN 0 ELSE Len(variant[1])

\* the height read off the first row, as the width is
VariantHeightOfRow(variant) == IF Len(variant) = 0 THEN 0 ELSE Len(variant[1])

\* variant.length
VariantHeight(variant) == Len(variant)

\* the (y, x) offsets with variant[y][x] === 1, in the order of the loops
\* over y and x, each as y * vw + x
FilledOffsets(variant, vh, vw) ==
  SelectSeq([i \in 1..(vh * vw) |-> i - 1],
            LAMBDA o : variant[(o \div vw) + 1][(o % vw) + 1] = 1)

\* the cells pushed for the anchor (py, px)
CellsOf(offsets, vw, py, px, gridWidth) ==
  [j \in 1..Len(offsets) |->
     CellIndex(py + (offsets[j] \div vw), px + (offsets[j] % vw), gridWidth)]

\* the loops over py and px, nY and nX anchors each
AnchorLoop(offsets, vw, nY, nX, gridWidth) ==
  [k \in 1..(nY * nX) |->
     CellsOf(offsets, vw, (k - 1) \div nX, (k - 1) % nX, gridWidth)]

\* the placements of a variant of the given extent
PlacementsSized(variant, vh, vw, gridWidth, gridHeight) ==
  AnchorLoop(FilledOffsets(variant, vh, vw), vw,
             AnchorCount(gridHeight, vh), AnchorCount(gridWidth, vw), gridWidth)

\* the placements of one variant
PlacementsOfVariant(variant, gridWidth, gridHeight) ==
  PlacementsSized(variant, VariantHeight(variant), VariantWidth(variant),
                  gridWidth, gridHeight)

\* the loop over the variants
PlacementsOf(variants, gridWidth, gridHeight) ==
  Concat([v \in 1..Len(variants) |->
            PlacementsOfVariant(variants[v], gridWidth, gridHeight)])

\* a Map with one more entry
MapSet(map, key, value) ==
  [k \in DOMAIN map \cup {key} |-> IF k = key THEN value ELSE map[k]]

\* getCachedVariants: the variant cache after the call
CachedVariantsMap(vc, shape) ==
  IF shape.id \in DOMAIN vc THEN vc ELSE MapSet(vc, shape.id, getVariants(shape))

\* `${shape.id}_${gridWidth}`, the height left out of the key
PlacementKeyOfWidth(shape, gridWidth, gridHeight) == <<shape.id, gridWidth, 0>>

\* `${shape.id}_${gridWidth}_${gridHeight}`
PlacementKey(shape, gridWidth, gridHeight) == <<shape.id, gridWidth, gridHeight>>

\* placementCache.set(key, placements); return placements
PlacementsStore(vc, pcache, key, placements) ==
  [v |-> vc, p |-> MapSet(pcache, key, placements), value |-> placements]

\* the cache miss: the variants are fetched and the placements enumerated
PlacementsMiss(vc, pcache, key, shape, gridWidth, gridHeight) ==
  PlacementsStore(vc, pcache, key, PlacementsOf(vc[shape.id], gridWidth, gridHeight))

\* if (placementCache.has(key)) return placementCache.get(key)
PlacementsKeyed(caches, key, shape, gridWidth, gridHeight) ==
  IF key \in DOMAIN caches.p
    THEN [v |-> caches.v, p |-> caches.p, value |-> caches.p[key]]
    ELSE PlacementsMiss(CachedVariantsMap(caches.v, shape), caches.p, key,
                        shape, gridWidth, gridHeight)

\* getShapePlacements: the two caches after the call and the value returned
getShapePlacements(caches, shape, gridWidth, gridHeight) ==
  PlacementsKeyed(caches, PlacementKey(shape, gridWidth, gridHeight),
                  shape, gridWidth, gridHeight)

\* shape.matrix.filter((c) => c === 1).length
MatrixCellCount(shape) ==
  Cardinality({i \in 1..Len(shape.matrix) : shape.matrix[i] = 1})

\* getShapeCellCount: the count cache after the call
CellCountMap(cc, shape) ==
  IF shape.id \in DOMAIN cc THEN cc ELSE MapSet(cc, shape.id, MatrixCellCount(shape))

----------------------------------------------------------------------------
(* The exact-cover solver behind dlx.createSolver, addSparseConstraints    *)
(* and createGenerator().next(): the dancing-links package, whose code is  *)
(* not part of src/ and is modelled from the specification's section 4.3.  *)
(* Node 0 is the root of the header ring, nodes 1..primary are the primary *)
(* column headers, the next `secondary` nodes the secondary column         *)
(* headers, and the row nodes follow in the order the rows were added.     *)

\* the column nodes of a constraint row: its primary columns, then its secondary ones
RowColumns(numPrimary, c) ==
  [i \in 1..Len(c.primary) |-> c.primary[i] + 1]
    \o [i \in 1..Len(c.secondary) |-> numPrimary + 1 + c.secondary[i]]

RECURSIVE RowStarts(_, _, _)
\* the first node of each row, the rows being laid out one after the other from `at`
RowStarts(rows, i, at) ==
  IF i > Len(rows) THEN <<>>
  ELSE <<at>> \o RowStarts(rows, i + 1, at + Len(rows[i]))

\* the nodes of column c, top to bottom: the rows in the order they were added
ColumnNodes(nc, cols, c) ==
  SelectSeq([k \in 1..Len(cols) |-> nc + k], LAMBDA x : cols[x - nc] = c)

\* the node below x in the column whose nodes are cn and whose header is c
Below(cn, c, x) ==
  IF cn = <<>> THEN c
  ELSE IF x = c THEN cn[1]
  ELSE IF x = cn[Len(cn)] THEN c
  ELSE cn[(CHOOSE i \in 1..Len(cn) : cn[i] = x) + 1]

\* the node above x in the column whose nodes are cn and whose header is c
Above(cn, c, x) ==
  IF cn = <<>> THEN c
  ELSE IF x = c THEN cn[Len(cn)]
  ELSE IF x = cn[1] THEN c
  ELSE cn[(CHOOSE i \in 1..Len(cn) : cn[i] = x) - 1]

\* the links of nc column headers and of the row nodes: cols[k] and rowOf[k]
\* are the column and the row of node nc + k, starts[i] is the first node of
\* row i and colNodes[c] the nodes of column c
LinkNodes(nc, n, rows, cols, rowOf, starts, colNodes) ==
  [C |-> [x \in 0..n |-> IF x <= nc THEN x ELSE cols[x - nc]],
   L |-> [x \in 0..n |->
            IF x <= nc THEN (IF x = 0 THEN nc ELSE x - 1)
            ELSE IF x = starts[rowOf[x - nc]]
              THEN x + Len(rows[rowOf[x - nc]]) - 1
              ELSE x - 1],
   R |-> [x \in 0..n |->
            IF x <= nc THEN (IF x = nc THEN 0 ELSE x + 1)
            ELSE IF x = starts[rowOf[x - nc]] + Len(rows[rowOf[x - nc]]) - 1
              THEN starts[rowOf[x - nc]]
              ELSE x + 1],
   U |-> [x \in 0..n |->
            IF x = 0 THEN 0
            ELSE IF x <= nc THEN Above(colNodes[x], x, x)
            ELSE Above(colNodes[cols[x - nc]], cols[x - nc], x)],
   D |-> [x \in 0..n |->
            IF x = 0 THEN 0
            ELSE IF x <= nc THEN Below(colNodes[x], x, x)
            ELSE Below(colNodes[cols[x - nc]], cols[x - nc], x)],
   S |-> [c \in 0..nc |-> IF c = 0 THEN 0 ELSE Len(colNodes[c])]]

RECURSIVE ColumnLists(_, _, _)
\* the nodes of the columns c, c + 1, ..., nc
ColumnLists(nc, cols, c) ==
  IF c > nc THEN <<>>
  ELSE <<ColumnNodes(nc, cols, c)>> \o ColumnLists(nc, cols, c + 1)

\* the nodes of every column, once the columns of the row nodes are known
LinkColumns(nc, rows, cols, rowOf, starts) ==
  LinkNodes(nc, nc + Len(cols), rows, cols, rowOf, starts, ColumnLists(nc, cols, 1))

\* the row nodes of the rows: their columns, and the row each belongs to
LinkRows(nc, rows) ==
  LinkColumns(nc, rows, Concat(rows),
              Concat([i \in 1..Len(rows) |-> [k \in 1..Len(rows[i]) |-> i]]),
              RowStarts(rows, 1, nc + 1))

RECURSIVE RowsOf(_, _, _)
\* the column nodes of the constraint rows i, i + 1, ...
RowsOf(numPrimary, constraints, i) ==
  IF i > Len(constraints) THEN <<>>
  ELSE <<RowColumns(numPrimary, constraints[i])>>
         \o RowsOf(numPrimary, constraints, i + 1)

\* the linked structure of a solver with the given columns and constraint rows
BuildLinks(numPrimary, numSecondary, constraints) ==
  LinkRows(numPrimary + numSecondary, RowsOf(numPrimary, constraints, 1))

RECURSIVE HideRow(_, _, _)
\* for j = R[i]; j # i; j = R[j]: unlink j from its column
HideRow(lk, i, j) ==
  IF j = i THEN lk
  ELSE HideRow([lk EXCEPT !.U[lk.D[j]] = lk.U[j],
                          !.D[lk.U[j]] = lk.D[j],
                          !.S[lk.C[j]] = @ - 1], i, lk.R[j])

RECURSIVE HideRows(_, _, _)
\* for i = D[c]; i # c; i = D[i]: hide row i
HideRows(lk, c, i) ==
  IF i = c THEN lk ELSE HideRows(HideRow(lk, i, lk.R[i]), c, lk.D[i])

\* cover column c: take it out of the header ring and hide its rows
CoverColumn(lk, c) ==
  HideRows([lk EXCEPT !.L[lk.R[c]] = lk.L[c], !.R[lk.L[c]] = lk.R[c]], c, lk.D[c])

RECURSIVE ShowRow(_, _, _)
\* for j = L[i]; j # i; j = L[j]: relink j into its column
ShowRow(lk, i, j) ==
  IF j = i THEN lk
  ELSE ShowRow([lk EXCEPT !.S[lk.C[j]] = @ + 1,
                          !.U[lk.D[j]] = j,
                          !.D[lk.U[j]] = j], i, lk.L[j])

RECURSIVE ShowRows(_, _, _)
\* for i = U[c]; i # c; i = U[i]: show row i
ShowRows(lk, c, i) ==
  IF i = c THEN lk ELSE ShowRows(ShowRow(lk, i, lk.L[i]), c, lk.U[i])

\* uncover column c: the exact inverse of CoverColumn
UncoverColumn(lk, c) ==
  LET shown == ShowRows(lk, c, lk.U[c])
  IN [shown EXCEPT !.L[shown.R[c]] = c, !.R[shown.L[c]] = c]

\* the other columns of the row left uncovered
CoverOthersNone(lk, r, j) == lk

RECURSIVE CoverOthers(_, _, _)
\* for j = R[r]; j # r; j = R[j]: cover the column of j
CoverOthers(lk, r, j) ==
  IF j = r THEN lk ELSE CoverOthers(CoverColumn(lk, lk.C[j]), r, lk.R[j])

\* cover the row r: its own column first, then its other columns left to right
CoverRow(lk, r) == CoverOthers(CoverColumn(lk, lk.C[r]), r, lk.R[r])

RECURSIVE UncoverOthers(_, _, _)
\* for j = L[r]; j # r; j = L[j]: uncover the column of j
UncoverOthers(lk, r, j) ==
  IF j = r THEN lk ELSE UncoverOthers(UncoverColumn(lk, lk.C[j]), r, lk.L[j])

RECURSIVE UncoverForward(_, _, _)
\* for j = R[r]; j # r; j = R[j]: uncover the column of j
UncoverForward(lk, r, j) ==
  IF j = r THEN lk ELSE UncoverForward(UncoverColumn(lk, lk.C[j]), r, lk.R[j])

\* uncover the row r with its other columns taken left to right, the order
\* they were covered in
UncoverRowForward(lk, r) == UncoverColumn(UncoverForward(lk, r, lk.R[r]), lk.C[r])

\* uncover the row r: its other columns right to left, its own column last
UncoverRow(lk, r) == UncoverColumn(UncoverOthers(lk, r, lk.L[r]), lk.C[r])

RECURSIVE RingFrom(_, _)
\* the column headers still in the header ring, in ring order from c
RingFrom(lk, c) == IF c = 0 THEN <<>> ELSE <<c>> \o RingFrom(lk, lk.R[c])

\* the primary columns not covered yet
ActivePrimary(lk, numPrimary) ==
  SelectSeq(RingFrom(lk, lk.R[0]), LAMBDA c : c <= numPrimary)

\* the first of the columns act with `best` remaining rows
FirstWithSize(lk, act, best) == act[Min({i \in 1..Len(act) : lk.S[act[i]] = best})]

\* the first column of act, whatever its size
SmallestOfFirst(lk, act) == act[1]

\* the column of act with the fewest remaining rows (the first such)
SmallestOf(lk, act) == FirstWithSize(lk, act, Min({lk.S[act[i]] : i \in 1..Len(act)}))

\* the uncovered primary column with the fewest remaining rows
ChooseColumn(lk, numPrimary) == SmallestOf(lk, ActivePrimary(lk, numPrimary))

----------------------------------------------------------------------------
(* canFitRegion: src/6/index.ts lines 354-411. Shape indices are 1-based   *)
(* here: pieces[i] is the code's pieces[i - 1].                            *)

\* if (pieces[shapeIdx] > 0), taken for a zero count too
RequiredOrZero(count) == count >= 0

\* if (pieces[shapeIdx] > 0)
Required(count) == count > 0

\* totalCellsNeeded += cellCount, the count of instances forgotten
NeededCellsOnce(count, cellCount) == cellCount

\* pieces[shapeIdx] * getShapeCellCount(shapes[shapeIdx])
NeededCells(count, cellCount) == count * cellCount

RECURSIVE PruneLoop(_, _, _, _, _)
\* totalCellsNeeded += pieces[shapeIdx] * getShapeCellCount(shapes[shapeIdx]),
\* cc being the count cache after that call
PruneAdd(pieces, catalog, idx, total, cc) ==
  PruneLoop(pieces, catalog, idx + 1,
            total + NeededCells(pieces[idx], cc[catalog[idx].id]), cc)

\* the loop summing totalCellsNeeded; reading shapes[shapeIdx].id of a shape
\* the catalog does not hold throws
PruneLoop(pieces, catalog, idx, total, cc) ==
  IF idx > Len(pieces)
    THEN [total |-> total, cc |-> cc, thrown |-> FALSE]
  ELSE IF ~Required(pieces[idx])
    THEN PruneLoop(pieces, catalog, idx + 1, total, cc)
  ELSE IF idx > Len(catalog)
    THEN [total |-> total, cc |-> cc, thrown |-> TRUE]
  ELSE PruneAdd(pieces, catalog, idx, total, CellCountMap(cc, catalog[idx]))

\* Build list of piece instances we need to place
PieceInstances(pieces) ==
  Concat([i \in 1..Len(pieces) |-> [k \in 1..pieces[i] |-> i]])

RECURSIVE ConstraintLoop(_, _, _, _, _, _)
\* every row pushed with primary: [0] in place of primary: [pieceIdx]
ConstraintPushFirst(reg, catalog, inst, pieceIdx, got, constraints) ==
  ConstraintLoop(reg, catalog, inst, pieceIdx + 1, [v |-> got.v, p |-> got.p],
                 constraints \o [k \in 1..Len(got.value) |->
                                   [primary |-> <<0>>,
                                    secondary |-> got.value[k]]])

\* for (const cells of placements) constraints.push(...), got being what
\* getShapePlacements returned
ConstraintPush(reg, catalog, inst, pieceIdx, got, constraints) ==
  ConstraintLoop(reg, catalog, inst, pieceIdx + 1, [v |-> got.v, p |-> got.p],
                 constraints \o [k \in 1..Len(got.value) |->
                                   [primary |-> <<pieceIdx - 1>>,
                                    secondary |-> got.value[k]]])

\* the loop over pieceIdx pushing one constraint per placement
ConstraintLoop(reg, catalog, inst, pieceIdx, caches, constraints) ==
  IF pieceIdx > Len(inst)
    THEN [v |-> caches.v, p |-> caches.p, constraints |-> constraints]
  ELSE ConstraintPush(reg, catalog, inst, pieceIdx,
                      getShapePlacements(caches, catalog[inst[pieceIdx]],
                                         reg.width, reg.height),
                      constraints)

NoMatrix == [primary |-> 0, secondary |-> 0, rows |-> <<>>, instances |-> <<>>]

NoLinks == BuildLinks(0, 0, <<>>)

NoProbe == [placements |-> 0, solvers |-> 0]

\* if (pieceInstances.length === 0), never taken
NoInstancesNever(inst) == FALSE

\* if (pieceInstances.length === 0)
NoInstances(inst) == Len(inst) = 0

\* the call returns or throws before a solver exists
CanFitEarly(res, vc, pcache, cc) ==
  [pc |-> "done", result |-> res, v |-> vc, p |-> pcache, cc |-> cc,
   matrix |-> NoMatrix, links |-> NoLinks, probe |-> NoProbe]

\* the missing shape taken as a reason to answer false
CanFitThrowsFalse(vc, pcache, cc) == CanFitEarly("false", vc, pcache, cc)

\* getShapeCellCount(undefined) reads shape.id of undefined: a TypeError
\* leaves canFitRegion
CanFitThrows(vc, pcache, cc) == CanFitEarly("error", vc, pcache, cc)

\* solver.addSparseConstraints(constraints); const generator = solver.createGenerator()
CanFitSolver(numCells, inst, built, cc) ==
  [pc |-> "search", result |-> "none", v |-> built.v, p |-> built.p, cc |-> cc,
   matrix |-> [primary |-> Len(inst), secondary |-> numCells,
               rows |-> built.constraints, instances |-> inst],
   links |-> BuildLinks(Len(inst), numCells, built.constraints),
   probe |-> [placements |-> Len(inst), solvers |-> 1]]

\* the call after the pruning loop
CanFitPruned(reg, catalog, vc, pcache, numCells, pruned, inst) ==
  IF pruned.thrown THEN CanFitThrows(vc, pcache, pruned.cc)
  ELSE IF pruned.total > numCells THEN CanFitEarly("false", vc, pcache, pruned.cc)
  ELSE IF NoInstances(inst) THEN CanFitEarly("true", vc, pcache, pruned.cc)
  ELSE CanFitSolver(numCells, inst,
                    ConstraintLoop(reg, catalog, inst, 1,
                                   [v |-> vc, p |-> pcache], <<>>),
                    pruned.cc)

\* canFitRegion up to generator.next(): what it returned or threw, or the
\* solver it built, and the caches after it
CanFitStart(reg, catalog, vc, pcache, cc) ==
  CanFitPruned(reg, catalog, vc, pcache, reg.width * reg.height,
               PruneLoop(reg.pieces, catalog, 1, 0, cc),
               PieceInstances(reg.pieces))

RECURSIVE SolveFrom(_, _)
RECURSIVE TryRows(_, _, _, _)
\* only the first candidate row of the column is tried
TryRowsFirstOnly(lk, numPrimary, c, r) ==
  IF r = c THEN FALSE ELSE SolveFrom(CoverRow(lk, r), numPrimary)

\* the candidate rows of column c from r downwards: cover, recurse, and on
\* failure go on with the next row from the links as they were before the cover
TryRows(lk, numPrimary, c, r) ==
  IF r = c THEN FALSE
  ELSE IF SolveFrom(CoverRow(lk, r), numPrimary) THEN TRUE
  ELSE TryRows(lk, numPrimary, c, lk.D[r])

\* the search from the links lk: whether a solution exists
SolveFrom(lk, numPrimary) ==
  IF ActivePrimary(lk, numPrimary) = <<>> THEN TRUE
  ELSE TryRows(lk, numPrimary, ChooseColumn(lk, numPrimary),
               lk.D[ChooseColumn(lk, numPrimary)])

\* return !result.done, for a call that reached generator.next()
CanFitAnswer(out) ==
  IF out.pc = "done" THEN out.result
  ELSE IF SolveFrom(out.links, out.matrix.primary) THEN "true"
  ELSE "false"

\* what canFitRegion returns ("error" when it throws), the caches being vc,
\* pcache and cc at the call
CanFitResult(reg, catalog, vc, pcache, cc) ==
  CanFitAnswer(CanFitStart(reg, catalog, vc, pcache, cc))

----------------------------------------------------------------------------
(* The inputs of the model. *)

Single == <<1, 0, 0,  0, 0, 0,  0, 0, 0>>
Domino == <<1, 0, 0,  1, 0, 0,  0, 0, 0>>
Ell    == <<1, 1, 0,  1, 0, 0,  0, 0, 0>>
Tee    == <<0, 1, 0,  1, 1, 1,  0, 0, 0>>
Gap    == <<1, 0, 0,  0, 0, 0,  1, 0, 0>>
Empty  == <<0, 0, 0,  0, 0, 0,  0, 0, 0>>

\* a catalog whose shape headers are numbered 0, 1, ... in order: the shape
\* at index i has id i
Catalog(ms) == [i \in 1..Len(ms) |-> Pentomino(i - 1, ms[i])]

Catalogs ==
  {Catalog(ms) : ms \in {<<Single>>, <<Domino, Single>>, <<Ell, Domino>>,
                         <<Gap, Tee>>, <<Empty, Single>>, <<Tee, Ell>>}}

Regions ==
  {[width |-> w, height |-> h, pieces |-> ps] :
     w \in 0..MaxWidth, h \in 0..MaxHeight,
     ps \in UNION {[1..n -> 0..MaxCount] : n \in 1..MaxPieces}}

NoRegion == [width |-> 0, height |-> 0, pieces |-> <<>>]

EmptyMap == [k \in {} |-> 0]

Idle == [st |-> "idle"]

----------------------------------------------------------------------------
(* The feasibility checker as a state machine. *)

Init ==
  /\ gv = Idle
  /\ gp = Idle
  /\ shapes \in Catalogs
  /\ region = NoRegion
  /\ pc = "idle"
  /\ result = "none"
  /\ variantCache = EmptyMap
  /\ placementCache = EmptyMap
  /\ shapeCellCounts = EmptyMap
  /\ matrix = NoMatrix
  /\ links = NoLinks
  /\ stack = <<>>
  /\ probe = NoProbe
  /\ calls = 0
  /\ OtherDaysOff

\* canFitRegion(region, shapes) is called on a region of rs and runs up to
\* generator.next()
CanFitRegionIn(rs) ==
  /\ pc = "idle"
  /\ calls' = calls + 1
  /\ \E reg \in rs :
       LET out == CanFitStart(reg, shapes, variantCache, placementCache,
                              shapeCellCounts)
       IN /\ region' = reg
          /\ pc' = out.pc
          /\ result' = out.result
          /\ variantCache' = out.v
          /\ placementCache' = out.p
          /\ shapeCellCounts' = out.cc
          /\ matrix' = out.matrix
          /\ links' = out.links
          /\ probe' = out.probe
  /\ stack' = <<>>
  /\ UNCHANGED <<gv, gp, shapes>>
  /\ UNCHANGED otherDays

\* the search finds no uncovered primary column and goes on to look for
\* another solution in place of yielding this one
SearchFoundGoesOn ==
  /\ pc = "search"
  /\ ActivePrimary(links, matrix.primary) = <<>>
  /\ pc' = "backtrack"
  /\ UNCHANGED <<gv, gp, shapes, region, result, variantCache, placementCache,
                 shapeCellCounts, matrix, links, stack, probe, calls>>
  /\ UNCHANGED otherDays

\* the search finds no uncovered primary column: generator.next() yields a solution
SearchFound ==
  /\ pc = "search"
  /\ ActivePrimary(links, matrix.primary) = <<>>
  /\ pc' = "done"
  /\ result' = "true"
  /\ UNCHANGED <<gv, gp, shapes, region, variantCache, placementCache,
                 shapeCellCounts, matrix, links, stack, probe, calls>>
  /\ UNCHANGED otherDays

\* the chosen column has no candidate row: this branch is infeasible
SearchDeadEnd ==
  /\ pc = "search"
  /\ ActivePrimary(links, matrix.primary) # <<>>
  /\ links.S[ChooseColumn(links, matrix.primary)] = 0
  /\ IF stack = <<>>
       THEN pc' = "done" /\ result' = "false"
       ELSE pc' = "backtrack" /\ result' = result
  /\ UNCHANGED <<gv, gp, shapes, region, variantCache, placementCache,
                 shapeCellCounts, matrix, links, stack, probe, calls>>
  /\ UNCHANGED otherDays

\* the first candidate row of the chosen column is covered and the search recurses
SearchDescend ==
  /\ pc = "search"
  /\ ActivePrimary(links, matrix.primary) # <<>>
  /\ LET c == ChooseColumn(links, matrix.primary)
         r == links.D[c]
     IN /\ links.S[c] > 0
        /\ stack' = Append(stack, [col |-> c, row |-> r, saved |-> links])
        /\ links' = CoverRow(links, r)
  /\ UNCHANGED <<gv, gp, shapes, region, pc, result, variantCache,
                 placementCache, shapeCellCounts, matrix, probe, calls>>
  /\ UNCHANGED otherDays

\* the recursive call failed: the row covered last is uncovered
SearchUncover ==
  /\ pc = "backtrack"
  /\ links' = UncoverRow(links, stack[Len(stack)].row)
  /\ pc' = "next"
  /\ UNCHANGED <<gv, gp, shapes, region, result, variantCache, placementCache,
                 shapeCellCounts, matrix, stack, probe, calls>>
  /\ UNCHANGED otherDays

\* the next candidate row of the column is covered, or the column is exhausted
SearchNext ==
  /\ pc = "next"
  /\ LET top == stack[Len(stack)]
         r == links.D[top.row]
         rest == SubSeq(stack, 1, Len(stack) - 1)
     IN IF r # top.col
          THEN /\ stack' = Append(rest, [col |-> top.col, row |-> r, saved |-> links])
               /\ links' = CoverRow(links, r)
               /\ pc' = "search"
               /\ result' = result
          ELSE /\ stack' = rest
               /\ links' = links
               /\ IF rest = <<>>
                    THEN pc' = "done" /\ result' = "false"
                    ELSE pc' = "backtrack" /\ result' = result
  /\ UNCHANGED <<gv, gp, shapes, region, variantCache, placementCache,
                 shapeCellCounts, matrix, probe, calls>>
  /\ UNCHANGED otherDays

CanFitRegion == CanFitRegionIn(Regions)

Next ==
  \/ CanFitRegion
  \/ SearchFound
  \/ SearchDeadEnd
  \/ SearchDescend
  \/ SearchUncover
  \/ SearchNext

Spec == Init /\ [][Next]_vars

----------------------------------------------------------------------------
(* getVariants on its own, one iteration of its loop at a time, for every  *)
(* 3x3 template.                                                           *)

Quiet ==
  /\ region = NoRegion
  /\ pc = "idle"
  /\ result = "none"
  /\ variantCache = EmptyMap
  /\ placementCache = EmptyMap
  /\ shapeCellCounts = EmptyMap
  /\ matrix = NoMatrix
  /\ links = NoLinks
  /\ stack = <<>>
  /\ probe = NoProbe
  /\ calls = 0

\* the packing checker is not running
PackingOff ==
  /\ gv = Idle
  /\ gp = Idle
  /\ shapes = <<>>
  /\ Quiet

InitVariants ==
  /\ gv \in {[st |-> "loop", shape |-> Pentomino(0, m), r |-> 0,
              loop |-> VariantStart(Pentomino(0, m))] : m \in AllMatrices}
  /\ gp = Idle
  /\ shapes = <<>>
  /\ Quiet
  /\ OtherDaysOff

\* for (let r = 0; r < 4; r++) { ... current = rotate(current); }
GetVariantsIter ==
  /\ gv.st = "loop"
  /\ gv.r < NumRotations
  /\ gv' = [gv EXCEPT !.loop = VariantIter(@), !.r = @ + 1]
  /\ UNCHANGED <<gp, shapes, region, pc, result, variantCache, placementCache,
                 shapeCellCounts, matrix, links, stack, probe, calls>>
  /\ UNCHANGED otherDays

\* return variants
GetVariantsReturn ==
  /\ gv.st = "loop"
  /\ gv.r = NumRotations
  /\ gv' = [gv EXCEPT !.st = "returned"]
  /\ UNCHANGED <<gp, shapes, region, pc, result, variantCache, placementCache,
                 shapeCellCounts, matrix, links, stack, probe, calls>>
  /\ UNCHANGED otherDays

NextVariants ==
  \/ GetVariantsIter
  \/ GetVariantsReturn

SpecVariants == InitVariants /\ [][NextVariants]_vars

----------------------------------------------------------------------------
(* The placement enumeration of getShapePlacements on its own, one variant *)
(* at a time, for every 3x3 template and every grid size up to MaxGrid.    *)
(* `origin` records, for each placement, the variant it was generated from.*)

InitPlacements ==
  /\ gv = Idle
  /\ gp \in {[st |-> "loop", shape |-> Pentomino(0, m),
              gridWidth |-> w, gridHeight |-> h,
              variants |-> getVariants(Pentomino(0, m)),
              v |-> 0, placements |-> <<>>, origin |-> <<>>] :
               m \in AllMatrices, w \in 0..MaxGrid, h \in 0..MaxGrid}
  /\ shapes = <<>>
  /\ Quiet
  /\ OtherDaysOff

\* the placements of the next variant pushed, each tagged with the variant
PushPlacements(g, v, found) ==
  [g EXCEPT !.v = v,
            !.placements = @ \o found,
            !.origin = @ \o [k \in 1..Len(found) |-> v]]

\* for (const variant of variants) { ... placements.push(cells) ... }
PlacementsIter ==
  /\ gp.st = "loop"
  /\ gp.v < Len(gp.variants)
  /\ gp' = PushPlacements(gp, gp.v + 1,
             PlacementsOfVariant(gp.variants[gp.v + 1], gp.gridWidth, gp.gridHeight))
  /\ UNCHANGED <<gv, shapes, region, pc, result, variantCache, placementCache,
                 shapeCellCounts, matrix, links, stack, probe, calls>>
  /\ UNCHANGED otherDays

\* return placements
PlacementsReturn ==
  /\ gp.st = "loop"
  /\ gp.v = Len(gp.variants)
  /\ gp' = [gp EXCEPT !.st = "returned"]
  /\ UNCHANGED <<gv, shapes, region, pc, result, variantCache, placementCache,
                 shapeCellCounts, matrix, links, stack, probe, calls>>
  /\ UNCHANGED otherDays

NextPlacements ==
  \/ PlacementsIter
  \/ PlacementsReturn

SpecPlacements == InitPlacements /\ [][NextPlacements]_vars

----------------------------------------------------------------------------
(* getCachedVariants on its own: a run of requests for shapes whose headers *)
(* may repeat an id. gv records the last request and what it returned.     *)

\* the shapes requested: a header digit and a template
RequestShapes ==
  {Pentomino(id, m) : id \in {0, 1}, m \in {Single, Domino, Ell, Tee, Gap, Empty}}

InitCached ==
  /\ gv = Idle
  /\ gp = Idle
  /\ shapes = <<>>
  /\ Quiet
  /\ OtherDaysOff

\* getCachedVariants(shape): the cache is filled on a miss, the entry returned
GetCachedVariants ==
  /\ calls < MaxRequests
  /\ \E shape \in RequestShapes :
       /\ variantCache' = CachedVariantsMap(variantCache, shape)
       /\ gv' = [st |-> "cached", shape |-> shape,
                 value |-> CachedVariantsMap(variantCache, shape)[shape.id]]
  /\ calls' = calls + 1
  /\ UNCHANGED <<gp, shapes, region, pc, result, placementCache,
                 shapeCellCounts, matrix, links, stack, probe>>
  /\ UNCHANGED otherDays

NextCached == GetCachedVariants

SpecCached == InitCached /\ [][NextCached]_vars

----------------------------------------------------------------------------
(* The main loop: for (const region of regions) canFitRegion(region,       *)
(* shapes), every call taken whole, the caches living on from call to      *)
(* call. The solver of a call is local to it and is not kept.              *)

\* the regions of the main loop
CallRegions ==
  {[width |-> w, height |-> h, pieces |-> ps] :
     w \in 2..3, h \in 2..3, ps \in [1..2 -> 0..MaxCallCount]}

\* canFitRegion(region, shapes), from its call to its return or throw
CallCanFitRegion ==
  /\ calls < MaxCalls
  /\ \E reg \in CallRegions :
       LET out == CanFitStart(reg, shapes, variantCache, placementCache,
                              shapeCellCounts)
       IN /\ region' = reg
          /\ result' = CanFitAnswer(out)
          /\ variantCache' = out.v
          /\ placementCache' = out.p
          /\ shapeCellCounts' = out.cc
  /\ pc' = "done"
  /\ calls' = calls + 1
  /\ UNCHANGED <<gv, gp, shapes, matrix, links, stack, probe>>
  /\ UNCHANGED otherDays

NextCalls == CallCanFitRegion

SpecCalls == Init /\ [][NextCalls]_vars

----------------------------------------------------------------------------
\* a search is running
Searching == pc \in {"search", "backtrack", "next"}

\* a step of the running search
Search == SearchFound \/ SearchDeadEnd \/ SearchDescend \/ SearchUncover \/ SearchNext

\* A running search keeps taking steps: generator.next() is synchronous code
\* and never waits. This is weak fairness of Search, with ENABLED <<Search>>_vars
\* written as Searching for the steps that rewrite the links.
FairSpec ==
  /\ Spec
  /\ WF_vars(SearchFound)
  /\ WF_vars(SearchDeadEnd)
  /\ ([]<><<Search>>_vars \/ []<>~Searching)

----------------------------------------------------------------------------
(* Reference geometry, independent of getVariants and getShapePlacements:  *)
(* a shape is the set of its filled (y, x) cells, its orientations are the *)
(* images of that set under the 8 rotations and reflections, moved to the  *)
(* origin, and a packing is found by trying every placement.               *)

ShapeCells(shape) ==
  {p \in (0..(shape.height - 1)) \X (0..(shape.width - 1)) :
     shape.matrix[p[1] * shape.width + p[2] + 1] = 1}

\* the filled (y, x) cells of a grid
GridCells(grid) ==
  {p \in (0..(Len(grid) - 1)) \X (0..(VariantWidth(grid) - 1)) :
     grid[p[1] + 1][p[2] + 1] = 1}

\* p reflected when f = 1, then turned k quarter turns
Turn(p, k, f) ==
  LET q == IF f = 1 THEN <<p[1], 0 - p[2]>> ELSE p
  IN CASE k = 0 -> q
       [] k = 1 -> <<q[2], 0 - q[1]>>
       [] k = 2 -> <<0 - q[1], 0 - q[2]>>
       [] OTHER -> <<0 - q[2], q[1]>>

\* a cell set moved so that its least row and least column are 0
ToOrigin(cs) ==
  IF cs = {} THEN {}
  ELSE {<<p[1] - Min({q[1] : q \in cs}), p[2] - Min({q[2] : q \in cs})>> : p \in cs}

\* the orientations of a cell set
Orientations(cs) ==
  {ToOrigin({Turn(p, k, f) : p \in cs}) : k \in 0..3, f \in 0..1}

\* the grid is exactly the bounding box of the cell set cs
IsBoxOf(grid, cs) ==
  IF cs = {} THEN grid = << <<>> >>
  ELSE /\ GridCells(grid) = cs
       /\ Len(grid) = Max({p[1] : p \in cs}) + 1
       /\ \A y \in 1..Len(grid) : Len(grid[y]) = Max({p[2] : p \in cs}) + 1

\* the index sets a shape can occupy in a width x height grid
TruePlacements(shape, width, height) ==
  {{(p[1] + d[1]) * width + p[2] + d[2] : p \in cs} :
     <<cs, d>> \in {x \in Orientations(ShapeCells(shape))
                            \X ((0..height) \X (0..width)) :
                      \A p \in x[1] : /\ p[1] + x[2][1] < height
                                      /\ p[2] + x[2][2] < width}}

RECURSIVE CanPack(_, _, _, _, _, _)
\* the instances inst[k..] can be placed on the cells not in occ
CanPack(catalog, inst, k, width, height, occ) ==
  IF k > Len(inst) THEN TRUE
  ELSE \E pl \in TruePlacements(catalog[inst[k]], width, height) :
         /\ pl \cap occ = {}
         /\ CanPack(catalog, inst, k + 1, width, height, occ \cup pl)

\* every required shape index is present in the catalog
WellFormed(reg, catalog) ==
  \A i \in 1..Len(reg.pieces) : reg.pieces[i] > 0 => i <= Len(catalog)

\* sum over the shapes of requiredCount * filled cells
RequiredCells(reg, catalog) ==
  SumSeq([i \in 1..Len(reg.pieces) |->
            IF reg.pieces[i] > 0
              THEN reg.pieces[i] * Cardinality(ShapeCells(catalog[i]))
              ELSE 0])

Area(reg) == reg.width * reg.height

\* a reference packing of the region's piece instances exists
Packable ==
  CanPack(shapes, PieceInstances(region.pieces), 1, region.width, region.height, {})

\* no variant of the shape fits the region's grid
NoVariantFits(shape, reg) ==
  \A v \in Range(getVariants(shape)) :
    Len(v) > reg.height \/ Len(v[1]) > reg.width

----------------------------------------------------------------------------
(* The claims. *)

\* C1: if canFitRegion returns true, there is an assignment of one placement
\* per piece instance, each a rotated or reflected translate of the
\* instance's shape inside the grid, the placements pairwise disjoint.
C1_Sound ==
  (pc = "done" /\ result = "true") => Packable

\* C2: for a well-formed region, canFitRegion returns true whenever a
\* brute-force reference finds a packing of all required piece instances
\* (stated for catalogs whose shapes all have a filled cell: the shape with
\* none is the subject of C10).
C2_Complete ==
  (pc = "done" /\ WellFormed(region, shapes) /\ Packable
     /\ \A i \in 1..Len(shapes) : ShapeCells(shapes[i]) # {})
  => result = "true"

\* C3: a region whose total required cells exceed width * height makes
\* canFitRegion return false before any placement enumeration, solver
\* creation or constraint building.
C3_Pruned ==
  (pc # "idle" /\ WellFormed(region, shapes)
     /\ RequiredCells(region, shapes) > Area(region))
  => /\ pc = "done"
     /\ result = "false"
     /\ probe.placements = 0
     /\ probe.solvers = 0
     /\ matrix = NoMatrix
     /\ links = NoLinks
     /\ placementCache = EmptyMap
     /\ variantCache = EmptyMap

\* C3 witness: an over-capacity region has been answered.
C3_OverCapacityAnswered ==
  /\ pc = "done"
  /\ WellFormed(region, shapes)
  /\ region.width > 0 /\ region.height > 0
  /\ RequiredCells(region, shapes) = Area(region) + 1

\* C4: uncovering in exactly the reverse order of the covers restores every
\* left/right/up/down link, every owning-column reference and every column
\* size to the values held before the cover.
C4_UncoverRestores ==
  pc = "next" => links = stack[Len(stack)].saved

\* C4 witness: a row covered inside another covered row has been uncovered.
C4_NestedUncover ==
  /\ pc = "next"
  /\ Len(stack) >= 2
  /\ links # BuildLinks(matrix.primary, matrix.secondary, matrix.rows)

\* C5: getVariants returns between 1 and 8 grids, no two structurally equal.
C5_VariantDedup ==
  gv.st = "returned" =>
    /\ Len(gv.loop.variants) >= 1
    /\ Len(gv.loop.variants) <= 8
    /\ \A i, j \in 1..Len(gv.loop.variants) :
         i # j => gv.loop.variants[i] # gv.loop.variants[j]

\* C5 witness: a shape some of whose 8 orientations coincide has returned.
C5_SomeCoincide ==
  /\ gv.st = "returned"
  /\ Len(gv.loop.variants) = 4
  /\ Cardinality(gv.loop.seen) = 4

\* C6: every variant is the shape's cell set under one of the 8 rotations
\* and reflections, cut to its bounding box: only leading and trailing empty
\* rows and columns are removed, empty rows and columns in between are kept.
C6_VariantsAreOrientations ==
  gv.st = "returned" =>
    \A i \in 1..Len(gv.loop.variants) :
      \E cs \in Orientations(ShapeCells(gv.shape)) :
        IsBoxOf(gv.loop.variants[i], cs)

\* C7: every placement getShapePlacements returns consists of pairwise
\* distinct indices in [0, gridWidth * gridHeight), as many as the variant
\* it was generated from has filled cells.
C7_PlacementIndices ==
  \A k \in 1..Len(gp.placements) :
    /\ \A a, b \in 1..Len(gp.placements[k]) :
         a # b => gp.placements[k][a] # gp.placements[k][b]
    /\ \A a \in 1..Len(gp.placements[k]) :
         /\ gp.placements[k][a] >= 0
         /\ gp.placements[k][a] < gp.gridWidth * gp.gridHeight
    /\ Len(gp.placements[k]) = FilledCount(gp.variants[gp.origin[k]])

\* C7 witness: placements of two variants with several cells, in a grid
\* that is not square, have been returned.
C7_SeveralPlacements ==
  /\ gp.st = "returned"
  /\ gp.gridWidth # gp.gridHeight
  /\ \E a, b \in 1..Len(gp.placements) :
       /\ gp.origin[a] # gp.origin[b]
       /\ Len(gp.placements[a]) >= 3

\* C8: for well-formed input canFitRegion never throws, a finished call has
\* returned a boolean, every search that starts finishes, every descent of
\* the search strictly reduces the number of uncovered primary columns, and
\* every retry at one level moves to a later row of the same column.
C8_Total ==
  /\ [](WellFormed(region, shapes) => result # "error")
  /\ []((pc = "done" /\ WellFormed(region, shapes)) => result \in {"true", "false"})
  /\ [](pc \in {"backtrack", "next"} => stack # <<>>)
  /\ Searching ~> (pc = "done")
  /\ [][(pc = "search" /\ Len(stack') > Len(stack))
          => Len(ActivePrimary(links', matrix.primary))
               < Len(ActivePrimary(links, matrix.primary))]_vars
  /\ [][(pc = "next" /\ pc' = "search")
          => /\ Len(stack') = Len(stack)
             /\ stack'[Len(stack)].col = stack[Len(stack)].col
             /\ stack'[Len(stack)].row > stack[Len(stack)].row]_vars

\* C8 witness: a search over columns that all had candidate rows has been
\* exhausted and the call has returned false.
C8_ExhaustedSearch ==
  /\ pc = "done"
  /\ result = "false"
  /\ probe.solvers = 1
  /\ matrix.primary >= 2
  /\ \A c \in 1..matrix.primary : links.S[c] > 0

\* C9: if every variant of a required shape is taller than the grid or
\* wider than it, getShapePlacements returns an empty list for that grid
\* size and canFitRegion returns false, also when the required cells do not
\* exceed the area.
C9_NoFitIsFalse ==
  \A i \in 1..Len(region.pieces) :
    (pc # "idle" /\ WellFormed(region, shapes) /\ region.pieces[i] > 0
       /\ NoVariantFits(shapes[i], region))
    => /\ result \in {"none", "false"}
       /\ pc = "done" => result = "false"
       /\ PlacementKey(shapes[i], region.width, region.height)
            \in DOMAIN placementCache
          => placementCache[PlacementKey(shapes[i], region.width,
                                         region.height)] = <<>>

\* C9 witness: a region with room for the cells of a shape that does not fit
\* has reached the solver and been answered false.
C9_RoomButNoFit ==
  /\ pc = "done"
  /\ result = "false"
  /\ probe.solvers = 1
  /\ RequiredCells(region, shapes) <= Area(region)
  /\ \E i \in 1..Len(region.pieces) :
       /\ region.pieces[i] > 0
       /\ NoVariantFits(shapes[i], region)
       /\ PlacementKey(shapes[i], region.width, region.height)
            \in DOMAIN placementCache

\* C10: a shape with zero filled cells yields exactly one empty variant,
\* getShapePlacements produces no placement for it in any grid, and
\* canFitRegion returns false for every region requiring an instance of it.
C10_EmptyUnplaceable ==
  \A i \in 1..Len(region.pieces) :
    (pc # "idle" /\ WellFormed(region, shapes) /\ region.pieces[i] > 0
       /\ ShapeCells(shapes[i]) = {})
    => /\ shapes[i].id \in DOMAIN variantCache
          => variantCache[shapes[i].id] = << << <<>> >> >>
       /\ PlacementKey(shapes[i], region.width, region.height)
            \in DOMAIN placementCache
          => placementCache[PlacementKey(shapes[i], region.width,
                                         region.height)] = <<>>
       /\ pc = "done" => result = "false"

\* every required count of the region is zero
AllZero(reg) == \A i \in 1..Len(reg.pieces) : reg.pieces[i] = 0

\* C11: a region whose required counts are all zero makes canFitRegion
\* return true, for every width and height, without creating a solver or
\* enumerating placements.
C11_ZeroCountsTrue ==
  (pc # "idle" /\ AllZero(region))
  => /\ pc = "done"
     /\ result = "true"
     /\ probe = NoProbe
     /\ matrix = NoMatrix
     /\ links = NoLinks
     /\ stack = <<>>
     /\ placementCache = EmptyMap
     /\ variantCache = EmptyMap

\* C11 witness: a region with two zero counts, the second for a shape the
\* catalog does not hold, has been answered, in a grid without cells.
C11_ZeroCountsAnswered ==
  /\ pc = "done"
  /\ AllZero(region)
  /\ Len(region.pieces) = 2
  /\ Len(shapes) = 1
  /\ region.width = 0

\* C12: the variants returned for a shape depend only on its cells: not on
\* its id and not on earlier requests, also when an earlier request was for
\* a shape with the same id and other cells.
C12_VariantsOfCells ==
  gv.st = "cached" => gv.value = getVariants(Pentomino(0, gv.shape.matrix))

\* the first nodes of the constraint rows of the solver
MatrixStarts ==
  RowStarts(RowsOf(matrix.primary, matrix.rows, 1), 1,
            matrix.primary + matrix.secondary + 1)

\* the constraint row the node x belongs to
NodeRow(x) ==
  CHOOSE i \in 1..Len(matrix.rows) :
    /\ MatrixStarts[i] <= x
    /\ x < MatrixStarts[i] + Len(matrix.rows[i].primary)
                           + Len(matrix.rows[i].secondary)

\* the constraint rows selected by the search: one per stack frame
SelectedRows == [k \in 1..Len(stack) |-> matrix.rows[NodeRow(stack[k].row)]]

\* the selected rows that hold the primary column p
CoveringPrimary(p) ==
  {k \in 1..Len(stack) : p \in Range(SelectedRows[k].primary)}

\* the selected rows that hold the secondary column c
CoveringSecondary(c) ==
  {k \in 1..Len(stack) : c \in Range(SelectedRows[k].secondary)}

\* the solver was asked and reported a solution
SolverSaidTrue == pc = "done" /\ result = "true" /\ probe.solvers = 1

\* C13: when the solver reports success the selected rows cover every
\* primary column exactly once and every secondary column at most once, a
\* secondary column may stay uncovered, and a branch fails only for a
\* primary column: one without candidate rows, or one whose rows are used up.
C13_PrimaryOnceSecondaryAtMost ==
  /\ [](SolverSaidTrue =>
          /\ \A p \in 0..(matrix.primary - 1) :
               Cardinality(CoveringPrimary(p)) = 1
          /\ \A c \in 0..(matrix.secondary - 1) :
               Cardinality(CoveringSecondary(c)) <= 1)
  /\ [][(pc = "search" /\ (pc' = "backtrack" \/ result' = "false"))
          => \E c \in Range(ActivePrimary(links, matrix.primary)) :
               links.S[c] = 0]_vars
  /\ [][(pc = "next" /\ (pc' = "backtrack" \/ result' = "false"))
          => /\ stack[Len(stack)].col \in 1..matrix.primary
             /\ links.D[stack[Len(stack)].row] = stack[Len(stack)].col]_vars

\* C13 witness: the solver reported success with two rows selected and a
\* secondary column that no selected row covers.
C13_SuccessWithFreeCell ==
  /\ SolverSaidTrue
  /\ Len(stack) >= 2
  /\ \E c \in 0..(matrix.secondary - 1) : CoveringSecondary(c) = {}
  /\ \E c \in 0..(matrix.secondary - 1) : CoveringSecondary(c) # {}

\* the permutations of 1..n
Perms(n) == {f \in [1..n -> 1..n] : \A i, j \in 1..n : f[i] = f[j] => i = j}

\* the count list of the region, one count per shape of the catalog
PadCounts(reg, n) ==
  [i \in 1..n |-> IF i <= Len(reg.pieces) THEN reg.pieces[i] ELSE 0]

\* the region with the counts of its shapes reordered by f
PermuteRegion(reg, n, f) ==
  [reg EXCEPT !.pieces = [i \in 1..n |-> PadCounts(reg, n)[f[i]]]]

\* the catalog reordered by f, every shape keeping its id
PermuteCatalog(catalog, f) == [i \in 1..Len(catalog) |-> catalog[f[i]]]

\* C14: canFitRegion returns the same boolean when the shapes are permuted
\* together with their required counts, which permutes the piece instances
\* and so the primary columns.
C14_OrderIndependent ==
  (pc = "done" /\ Len(region.pieces) <= Len(shapes))
  => \A f \in Perms(Len(shapes)) :
       CanFitResult(PermuteRegion(region, Len(shapes), f),
                    PermuteCatalog(shapes, f), EmptyMap, EmptyMap, EmptyMap)
         = result

\* C14 witness: a region with instances of two different shapes has been
\* answered by the solver after backtracking.
C14_TwoShapesAnswered ==
  /\ pc = "done"
  /\ probe.solvers = 1
  /\ Len(shapes) = 2
  /\ Len(region.pieces) = 2
  /\ region.pieces[1] > 0
  /\ region.pieces[2] > 0
  /\ shapes[1].matrix # shapes[2].matrix
  /\ result = "false"
  /\ \A c \in 1..matrix.primary : links.S[c] > 0

\* the placements pushed for the variant number v
PlacementsFrom(v) == {k \in 1..Len(gp.placements) : gp.origin[k] = v}

\* the anchors (py, px) of a variant of extent vh x vw in the grid
Anchors(vh, vw) ==
  (0..(gp.gridHeight - vh)) \X (0..(gp.gridWidth - vw))

\* the cells {(py + y) * gridWidth + (px + x) : variant[y][x] = 1}
AnchoredCells(variant, a) ==
  {(a[1] + p[1]) * gp.gridWidth + (a[2] + p[2]) : p \in GridCells(variant)}

\* C15: for every variant, of extent vh = variant.length by
\* vw = variant[0].length, getShapePlacements emits one placement per anchor
\* (py, px) with 0 <= py <= gridHeight - vh and 0 <= px <= gridWidth - vw
\* and no other, the placement being the variant's filled cells moved by
\* the anchor: (gridHeight - vh + 1) * (gridWidth - vw + 1) placements when
\* the variant fits, none when it does not.
C15_OnePerAnchor ==
  \A v \in 1..gp.v :
    /\ Cardinality(PlacementsFrom(v))
         = Cardinality(Anchors(Len(gp.variants[v]), VariantWidth(gp.variants[v])))
    /\ {Range(gp.placements[k]) : k \in PlacementsFrom(v)}
         = {AnchoredCells(gp.variants[v], a) :
              a \in Anchors(Len(gp.variants[v]), VariantWidth(gp.variants[v]))}
    /\ (Len(gp.variants[v]) <= gp.gridHeight
          /\ VariantWidth(gp.variants[v]) <= gp.gridWidth)
       => Cardinality(PlacementsFrom(v))
            = (gp.gridHeight - Len(gp.variants[v]) + 1)
                * (gp.gridWidth - VariantWidth(gp.variants[v]) + 1)
    /\ (Len(gp.variants[v]) > gp.gridHeight
          \/ VariantWidth(gp.variants[v]) > gp.gridWidth)
       => PlacementsFrom(v) = {}

\* C15 witness: the placements of a shape have been returned of which one
\* variant has several anchors in the grid and another does not fit it.
C15_FitsAndDoesNot ==
  /\ gp.st = "returned"
  /\ \E v, u \in 1..Len(gp.variants) :
       /\ Cardinality(PlacementsFrom(v)) >= 2
       /\ FilledCount(gp.variants[v]) >= 2
       /\ PlacementsFrom(u) = {}

\* the placements of the shape of the piece instance k for the region's
\* grid, computed without any cache
InstancePlacements(k) ==
  PlacementsOf(getVariants(shapes[PieceInstances(region.pieces)[k]]),
               region.width, region.height)

\* the rows of the piece instance k: one per placement, holding the
\* instance's primary column and the placement's cells
InstanceRows(k) ==
  [j \in 1..Len(InstancePlacements(k)) |->
     [primary |-> <<k - 1>>, secondary |-> InstancePlacements(k)[j]]]

\* the solver has just been built: generator.next() has not taken a step
JustBuilt == probe.solvers = 1 /\ pc = "search" /\ stack = <<>>

\* C16: the constraint matrix canFitRegion builds has one primary column
\* per piece instance (the sum of the required counts), one secondary
\* column per grid cell, and exactly one row per pair of a piece instance
\* and a placement of its shape in this grid, the row holding the
\* instance's own primary column and the placement's cell indices; the
\* search leaves the matrix as it was built.
C16_MatrixShape ==
  /\ [](JustBuilt =>
          /\ matrix.primary = SumSeq(region.pieces)
          /\ matrix.secondary = region.width * region.height
          /\ matrix.rows
               = Concat([k \in 1..SumSeq(region.pieces) |-> InstanceRows(k)])
          /\ \A i \in 1..Len(matrix.rows) : Len(matrix.rows[i].primary) = 1)
  /\ [][pc # "idle" => matrix' = matrix]_vars

\* C16 witness: a matrix has been built for three piece instances of two
\* shapes, with more rows than instances.
C16_ThreeInstances ==
  /\ JustBuilt
  /\ Len(region.pieces) = 2
  /\ region.pieces[1] >= 1
  /\ region.pieces[2] >= 2
  /\ Len(matrix.rows) > 3
  /\ InstanceRows(1) # InstanceRows(2)

\* the column header c is linked into the header ring
Uncovered(c) == links.R[links.L[c]] = c /\ links.L[links.R[c]] = c

\* the primary columns still uncovered
UncoveredPrimary == {c \in 1..matrix.primary : Uncovered(c)}

\* C17: every branching step of the search chooses, among the primary
\* columns still uncovered, one with the fewest remaining candidate rows and
\* tries a row of it; a secondary column is never chosen; and when an
\* uncovered primary column has no candidate row the step fails without
\* covering any row.
C17_MinimumRemaining ==
  /\ [](\A k \in 1..Len(stack) : stack[k].col \in 1..matrix.primary)
  /\ [][(pc = "search" /\ Len(stack') > Len(stack))
          => /\ stack'[Len(stack')].col \in UncoveredPrimary
             /\ \A d \in UncoveredPrimary :
                  links.S[stack'[Len(stack')].col] <= links.S[d]
             /\ links.S[stack'[Len(stack')].col] > 0
             /\ links.C[stack'[Len(stack')].row] = stack'[Len(stack')].col]_vars
  /\ [][(pc = "search" /\ \E d \in UncoveredPrimary : links.S[d] = 0)
          => /\ stack' = stack
             /\ links' = links
             /\ pc' \in {"backtrack", "done"}
             /\ pc' = "done" => result' = "false"]_vars

\* C17 witness: with every primary column uncovered, the search has chosen
\* another column than the first, which has more candidate rows.
C17_NotTheFirst ==
  /\ pc = "search"
  /\ Len(stack) = 1
  /\ stack[1].col # 1
  /\ stack[1].saved.S[stack[1].col] < stack[1].saved.S[1]

\* C18: once no primary column is uncovered the search reports success
\* without covering or exploring any further row, and the call is over;
\* after a failed recursive call the row tried is uncovered, the links being
\* those saved before its cover, before the next row of the same column is
\* covered.
C18_FirstSolutionStops ==
  /\ [][(pc = "search" /\ UncoveredPrimary = {})
          => /\ pc' = "done"
             /\ result' = "true"
             /\ links' = links
             /\ stack' = stack]_vars
  /\ (pc = "search" /\ UncoveredPrimary = {}) ~> (pc = "done" /\ result = "true")
  /\ [][pc # "done"]_vars
  /\ [][pc = "backtrack"
          => /\ pc' = "next"
             /\ stack' = stack
             /\ links' = stack[Len(stack)].saved]_vars
  /\ [][(pc' = "search" /\ pc # "idle" /\ stack' # stack /\ Len(stack') = Len(stack))
          => /\ pc = "next"
             /\ links = stack[Len(stack)].saved
             /\ stack'[Len(stack)].col = stack[Len(stack)].col
             /\ stack'[Len(stack)].row = links.D[stack[Len(stack)].row]
             /\ links' = CoverRow(links, stack'[Len(stack)].row)]_vars

\* C18 witness: success has been reported after a failed candidate row,
\* while a candidate row of a chosen column was still untried.
C18_StoppedEarly ==
  /\ pc = "done"
  /\ result = "true"
  /\ \E k \in 1..Len(stack) :
       stack[k].saved.D[stack[k].col] # stack[k].row
  /\ \E k \in 1..Len(stack) :
       stack[k].saved.D[stack[k].row] # stack[k].col

\* the shape of the catalog that carries the id
ShapeOfId(id) == CHOOSE shape \in Range(shapes) : shape.id = id

\* every entry of m is in n, unchanged
Kept(m, n) == \A k \in DOMAIN m : k \in DOMAIN n /\ n[k] = m[k]

\* C19: after any sequence of canFitRegion calls against one catalog every
\* entry of the variant, placement and cell-count caches equals what the
\* uncached computation returns for its key, an entry once written is never
\* changed, and every call returns what it returns from empty caches.
C19_PureMemoization ==
  /\ [](\A id \in DOMAIN variantCache :
          variantCache[id] = getVariants(ShapeOfId(id)))
  /\ [](\A key \in DOMAIN placementCache :
          placementCache[key]
            = PlacementsOf(getVariants(ShapeOfId(key[1])), key[2], key[3]))
  /\ [](\A id \in DOMAIN shapeCellCounts :
          shapeCellCounts[id] = MatrixCellCount(ShapeOfId(id)))
  /\ [][/\ Kept(variantCache, variantCache')
        /\ Kept(placementCache, placementCache')
        /\ Kept(shapeCellCounts, shapeCellCounts')]_vars
  /\ [](calls > 0 =>
          result = CanFitResult(region, shapes, EmptyMap, EmptyMap, EmptyMap))

\* C19 witness: a second call, requiring both shapes, has been answered by
\* the solver, the caches holding the variants of both shapes and their
\* placements for one grid size only.
C19_AnsweredFromCache ==
  /\ calls = 2
  /\ result \in {"true", "false"}
  /\ region.pieces[1] > 0
  /\ region.pieces[2] > 0
  /\ Cardinality(DOMAIN placementCache) = 2
  /\ Cardinality(DOMAIN variantCache) = 2
  /\ RequiredCells(region, shapes) <= Area(region)

\* the region without the counts at indices the catalog has no shape for
WithinCatalog(reg, catalog) ==
  [reg EXCEPT !.pieces = SubSeq(reg.pieces, 1, Min({Len(reg.pieces), Len(catalog)}))]

\* C20: a positive count at an index the catalog has no shape for makes
\* canFitRegion throw: it answers neither true nor false and fails before
\* any placement enumeration or solver call; a zero count at such an index
\* does not change the answer.
C20_UnknownShapeThrows ==
  /\ (pc # "idle" /\ ~WellFormed(region, shapes))
     => /\ pc = "done"
        /\ result = "error"
        /\ probe = NoProbe
        /\ matrix = NoMatrix
        /\ links = NoLinks
        /\ placementCache = EmptyMap
        /\ variantCache = EmptyMap
  /\ (pc = "done" /\ WellFormed(region, shapes))
     => /\ result # "error"
        /\ result = CanFitResult(WithinCatalog(region, shapes), shapes,
                                 EmptyMap, EmptyMap, EmptyMap)

\* C20 witness: a call has thrown for a region in a grid with room, after
\* the cells of a shape the catalog does hold had been counted.
C20_ThrownAfterCounting ==
  /\ pc = "done"
  /\ result = "error"
  /\ shapeCellCounts # EmptyMap
  /\ RequiredCells(WithinCatalog(region, shapes), shapes) <= Area(region)

----------------------------------------------------------------------------
(* Day 9 part 2: src/9/index-2.ts. A tile is a record [x, y]; tiles is the *)
(* vertex list of the polygon, 1-based here.                               *)

Tile(x, y) == [x |-> x, y |-> y]

\* segments.push({ start: current, end: next, isHorizontal: ... })
Segments(tiles) ==
  [i \in 1..Len(tiles) |->
     [start |-> tiles[i], end |-> tiles[(i % Len(tiles)) + 1],
      isHorizontal |-> tiles[i].y = tiles[(i % Len(tiles)) + 1].y]]

\* the ray cast to the right: the vertical segments with segX > x and
\* y in [minY, maxY) are counted
isPointInside(segments, x, y) ==
  Cardinality({i \in DOMAIN segments :
                 /\ ~segments[i].isHorizontal
                 /\ segments[i].start.x > x
                 /\ y >= Min({segments[i].start.y, segments[i].end.y})
                 /\ y < Max({segments[i].start.y, segments[i].end.y})}) % 2 = 1

isPointOnBoundary(segments, x, y) ==
  \E i \in DOMAIN segments :
    IF segments[i].isHorizontal
    THEN /\ y = segments[i].start.y
         /\ x >= Min({segments[i].start.x, segments[i].end.x})
         /\ x <= Max({segments[i].start.x, segments[i].end.x})
    ELSE /\ x = segments[i].start.x
         /\ y >= Min({segments[i].start.y, segments[i].end.y})
         /\ y <= Max({segments[i].start.y, segments[i].end.y})

isPointInsideOrOnBoundary(segments, x, y) ==
  isPointInside(segments, x, y) \/ isPointOnBoundary(segments, x, y)

\* no vertical segment strictly between the ends is crossed in its interior,
\* and both ends are inside or on the boundary
isHorizontalLineInside(segments, x1, x2, y) ==
  /\ ~\E i \in DOMAIN segments :
        /\ ~segments[i].isHorizontal
        /\ segments[i].start.x > Min({x1, x2})
        /\ segments[i].start.x < Max({x1, x2})
        /\ y > Min({segments[i].start.y, segments[i].end.y})
        /\ y < Max({segments[i].start.y, segments[i].end.y})
  /\ isPointInsideOrOnBoundary(segments, Min({x1, x2}), y)
  /\ isPointInsideOrOnBoundary(segments, Max({x1, x2}), y)

\* [...new Set(tiles.map((t) => t.y))]: the order of the values plays no
\* part in what isValidRectangle returns
allYValues(tiles) == {tiles[i].y : i \in DOMAIN tiles}

\* criticalYs holds the rectangle's two rows and the vertex rows between
\* them; every one of them has to pass isHorizontalLineInside
isValidRectangle(tiles, tileA, tileB) ==
  LET criticalYs ==
        {Min({tileA.y, tileB.y}), Max({tileA.y, tileB.y})} \cup
        {y \in allYValues(tiles) :
           y > Min({tileA.y, tileB.y}) /\ y < Max({tileA.y, tileB.y})}
  IN \A y \in criticalYs :
       isHorizontalLineInside(Segments(tiles), Min({tileA.x, tileB.x}),
                              Max({tileA.x, tileB.x}), y)

calculateArea(tileA, tileB) ==
  (Max({tileA.x, tileB.x}) - Min({tileA.x, tileB.x}) + 1) *
  (Max({tileA.y, tileB.y}) - Min({tileA.y, tileB.y}) + 1)

\* the vertex lists read from the input: simple rectilinear polygons, the
\* fourth the example of the source's comment
Polygons ==
  { <<Tile(0, 0), Tile(2, 0), Tile(2, 2), Tile(0, 2)>>,
    <<Tile(0, 0), Tile(3, 0), Tile(3, 1), Tile(1, 1), Tile(1, 3), Tile(0, 3)>>,
    <<Tile(0, 0), Tile(1, 0), Tile(1, 2), Tile(3, 2), Tile(3, 0), Tile(4, 0),
      Tile(4, 3), Tile(0, 3)>>,
    <<Tile(7, 1), Tile(11, 1), Tile(11, 7), Tile(9, 7), Tile(9, 5), Tile(2, 5),
      Tile(2, 3), Tile(7, 3)>>,
    <<Tile(0, 0), Tile(1, 0), Tile(1, 1), Tile(2, 1), Tile(2, 2), Tile(3, 2),
      Tile(3, 3), Tile(0, 3)>>,
    <<Tile(0, 0), Tile(3, 0), Tile(3, 1), Tile(1, 1), Tile(1, 3), Tile(3, 3),
      Tile(3, 4), Tile(0, 4)>>,
    <<Tile(1, 0), Tile(2, 0), Tile(2, 1), Tile(3, 1), Tile(3, 2), Tile(0, 2),
      Tile(0, 1), Tile(1, 1)>> }

InitTiles ==
  /\ PackingOff
  /\ day9 \in {[st |-> "loop", tiles |-> p, i |-> 1, j |-> 2, largestArea |-> 0,
                tileA |-> p[1], tileB |-> p[1], valid |-> FALSE] : p \in Polygons}
  /\ day10 = Off
  /\ day11 = Off
  /\ day5 = Off
  /\ day4 = Off
  /\ vis = Off

\* one pass of the inner loop: isValidRectangle(tiles[i], tiles[j]) and the
\* update of largestArea; tileA, tileB and valid record the call
TryPair ==
  /\ day9.st = "loop"
  /\ day9.i < Len(day9.tiles)
  /\ LET a == day9.tiles[day9.i]
         b == day9.tiles[day9.j]
         ok == isValidRectangle(day9.tiles, a, b)
         last == day9.j = Len(day9.tiles)
     IN day9' = [day9 EXCEPT
                   !.tileA = a, !.tileB = b, !.valid = ok,
                   !.largestArea = IF ok THEN Max({@, calculateArea(a, b)}) ELSE @,
                   !.i = IF last THEN @ + 1 ELSE @,
                   !.j = IF last THEN day9.i + 2 ELSE @ + 1]
  /\ UNCHANGED <<gv, gp, shapes, region, pc, result, variantCache, placementCache,
                 shapeCellCounts, matrix, links, stack, probe, calls>>
  /\ UNCHANGED <<day10, day11, day5, day4, vis>>

SpecTiles == InitTiles /\ [][TryPair]_vars

\* Reference: the tiles of the polygon, by a ray cast upwards through the
\* horizontal edges, and the tiles of its boundary, edge by edge.
Between(v, a, b) == (a <= v /\ v <= b) \/ (b <= v /\ v <= a)

OnEdge(tiles, x, y) ==
  \E i \in DOMAIN tiles :
    LET a == tiles[i]
        b == tiles[(i % Len(tiles)) + 1]
    IN \/ a.x = x /\ b.x = x /\ Between(y, a.y, b.y)
       \/ a.y = y /\ b.y = y /\ Between(x, a.x, b.x)

Enclosed(tiles, x, y) ==
  Cardinality({i \in DOMAIN tiles :
                 LET a == tiles[i]
                     b == tiles[(i % Len(tiles)) + 1]
                 IN /\ a.y = b.y
                    /\ a.y > y
                    /\ Min({a.x, b.x}) <= x
                    /\ x < Max({a.x, b.x})}) % 2 = 1

RedOrGreen(tiles, x, y) == OnEdge(tiles, x, y) \/ Enclosed(tiles, x, y)

\* a pair of vertices has been tried
PairTried == day9.st = "loop" /\ day9.i + day9.j > 3

\* C21: isValidRectangle(A, B) is true exactly when every tile of the
\* rectangle with opposite corners A and B is inside the polygon or on its
\* boundary, and the rows it checks give the same answer as every row.
C21_RectangleInside ==
  PairTried =>
    /\ day9.valid =
         \A x \in Min({day9.tileA.x, day9.tileB.x})..Max({day9.tileA.x, day9.tileB.x}) :
           \A y \in Min({day9.tileA.y, day9.tileB.y})..Max({day9.tileA.y, day9.tileB.y}) :
             RedOrGreen(day9.tiles, x, y)
    /\ day9.valid =
         \A y \in Min({day9.tileA.y, day9.tileB.y})..Max({day9.tileA.y, day9.tileB.y}) :
           isHorizontalLineInside(Segments(day9.tiles), day9.tileA.x,
                                  day9.tileB.x, y)

----------------------------------------------------------------------------
(* Day 10 part 1: minPresses of src/unnamed/part_001. A machine is a       *)
(* record [pattern, buttons] of bitmasks; buttons is 1-based here, so      *)
(* buttons[i + 1] is the code's buttons[i]. The bitwise operators of the   *)
(* code work on 32-bit integers.                                           *)

\* the lights of a machine
MaxLights == 2
\* the buttons of a machine, where every combination of masks is tried
MaxButtons == 3

\* the width of the operands of <<, & and ^
IntWidth == 32

\* a << b for 0 <= a < 2^31: the count is taken modulo 32 and the result is
\* a signed 32-bit value, so the bit that lands on position 31 counts -2^31
ShiftLeft(a, b) ==
  LET s == b % IntWidth
      low == IF s = 0 THEN a ELSE a % 2 ^ (IntWidth - 1 - s)
      sign == IF s = 0 THEN 0 ELSE (a \div 2 ^ (IntWidth - 1 - s)) % 2
      kept == IF low = 0 THEN 0 ELSE low * 2 ^ s
  IN IF sign = 1
     THEN kept - 2 ^ (IntWidth - 2) - 2 ^ (IntWidth - 2)
     ELSE kept

\* mask & (1 << i), as a condition, for 0 <= mask < 2^31 and 0 <= i < 32:
\* bit i of mask, and mask has no bit 31
BitSet(mask, i) == i < IntWidth - 1 /\ (mask \div 2 ^ i) % 2 = 1

\* a ^ b for masks without the sign bit
RECURSIVE BitXor(_, _)
BitXor(a, b) ==
  IF a = 0 THEN b
  ELSE IF b = 0 THEN a
  ELSE ((a + b) % 2) + 2 * BitXor(a \div 2, b \div 2)

\* the inner loop: lights and presses of the combination mask, from button i on
RECURSIVE PressLoop(_, _, _, _, _)
PressLoop(buttons, mask, i, lights, presses) ==
  IF i >= Len(buttons) THEN [lights |-> lights, presses |-> presses]
  ELSE IF BitSet(mask, i)
       THEN PressLoop(buttons, mask, i + 1, BitXor(lights, buttons[i + 1]), presses + 1)
       ELSE PressLoop(buttons, mask, i + 1, lights, presses)

\* Math.min(minPresses, presses), where minPresses is a number n or, with
\* inf set, Infinity
MathMin(minPresses, presses) ==
  IF minPresses.inf \/ presses < minPresses.n
  THEN [inf |-> FALSE, n |-> presses]
  ELSE minPresses

\* the machines of the input: every pattern with every list of up to
\* MaxButtons masks, and lists of 31 and 32 equal buttons
Machines ==
  {[pattern |-> t, buttons |-> bs] :
     t \in 0..(2 ^ MaxLights - 1),
     bs \in UNION {[1..n -> 0..(2 ^ MaxLights - 1)] : n \in 0..MaxButtons}}
  \cup
  {[pattern |-> t, buttons |-> [i \in 1..n |-> b]] :
     t \in 0..(2 ^ MaxLights - 1), b \in 0..(2 ^ MaxLights - 1),
     n \in {IntWidth - 1, IntWidth}}

InitMachines ==
  /\ PackingOff
  /\ day9 = Off
  /\ day10 \in {[st |-> "loop", machine |-> m, mask |-> 0,
                  minPresses |-> [inf |-> TRUE, n |-> 0]] :
                  m \in Machines}
  /\ day11 = Off
  /\ day5 = Off
  /\ day4 = Off
  /\ vis = Off

\* one pass of for (let mask = 0; mask < 1 << numButtons; mask++)
TryMask ==
  /\ day10.st = "loop"
  /\ day10.mask < ShiftLeft(1, Len(day10.machine.buttons))
  /\ LET out == PressLoop(day10.machine.buttons, day10.mask, 0, 0, 0)
     IN day10' = [day10 EXCEPT
                    !.minPresses = IF out.lights = day10.machine.pattern
                                   THEN MathMin(@, out.presses) ELSE @,
                    !.mask = @ + 1]
  /\ UNCHANGED <<gv, gp, shapes, region, pc, result, variantCache, placementCache,
                 shapeCellCounts, matrix, links, stack, probe, calls>>
  /\ UNCHANGED <<day9, day11, day5, day4, vis>>

\* the loop is over: return minPresses
ReturnMinPresses ==
  /\ day10.st = "loop"
  /\ ~(day10.mask < ShiftLeft(1, Len(day10.machine.buttons)))
  /\ day10' = [day10 EXCEPT !.st = "returned"]
  /\ UNCHANGED <<gv, gp, shapes, region, pc, result, variantCache, placementCache,
                 shapeCellCounts, matrix, links, stack, probe, calls>>
  /\ UNCHANGED <<day9, day11, day5, day4, vis>>

SpecMachines == InitMachines /\ [][TryMask \/ ReturnMinPresses]_vars

\* Reference: the pairs <<lights, presses>> that some subset of the first k
\* buttons produces, built one button at a time.
RECURSIVE Producible(_, _)
Producible(buttons, k) ==
  IF k = 0 THEN {<<0, 0>>}
  ELSE LET before == Producible(buttons, k - 1)
       IN before \cup {<<BitXor(p[1], buttons[k]), p[2] + 1>> : p \in before}

\* the sizes of the subsets of the buttons whose combined XOR is the target
SubsetSizes(machine) ==
  {p[2] : p \in {q \in Producible(machine.buttons, Len(machine.buttons)) :
                   q[1] = machine.pattern}}

\* C22: minPresses returns the least size of a subset of the buttons whose
\* combined XOR is the target, and Infinity exactly when there is none.
C22_MinPresses ==
  day10.st = "returned" =>
    /\ day10.minPresses.inf = (SubsetSizes(day10.machine) = {})
    /\ ~day10.minPresses.inf =>
         day10.minPresses.n = Min(SubsetSizes(day10.machine))

\* the same for the machines with at most MaxButtons buttons
MinPressesOfFew ==
  Len(day10.machine.buttons) <= MaxButtons => C22_MinPresses

----------------------------------------------------------------------------
(* Day 11 part 2: src/unnamed/part_004. graph maps a device to the list of *)
(* its outputs; a device without a line in the input has no entry.         *)

\* a key that forgets where the path starts
MemoKeyOfEnd(startId, endId) == "->" \o endId

\* const key = `${startId}->${endId}`
MemoKey(startId, endId) == startId \o "->" \o endId

\* countPaths(startId, endId) with the memo it reads and writes: the value
\* returned and the memo afterwards. NeighborsLoop is the forEach over the
\* neighbors from the i-th on.
RECURSIVE countPaths(_, _, _, _)
RECURSIVE NeighborsLoop(_, _, _, _, _, _)
countPaths(graph, memo, startId, endId) ==
  IF startId = endId THEN [value |-> 1, memo |-> memo]
  ELSE IF MemoKey(startId, endId) \in DOMAIN memo
       THEN [value |-> memo[MemoKey(startId, endId)], memo |-> memo]
       ELSE LET out == IF startId \in DOMAIN graph
                       THEN NeighborsLoop(graph, memo, graph[startId], 1, endId, 0)
                       ELSE [value |-> 0, memo |-> memo]
            IN [value |-> out.value,
                memo |-> [k \in DOMAIN out.memo \cup {MemoKey(startId, endId)} |->
                            IF k = MemoKey(startId, endId) THEN out.value
                            ELSE out.memo[k]]]

NeighborsLoop(graph, memo, neighbors, i, endId, total) ==
  IF i > Len(neighbors) THEN [value |-> total, memo |-> memo]
  ELSE LET sub == countPaths(graph, memo, neighbors[i], endId)
       IN NeighborsLoop(graph, sub.memo, neighbors, i + 1, endId, total + sub.value)

\* the six calls of case1 and case2, in the order they are evaluated
SegmentCalls ==
  << <<"svr", "dac">>, <<"dac", "fft">>, <<"fft", "out">>,
     <<"svr", "fft">>, <<"fft", "dac">>, <<"dac", "out">> >>

\* src/11/index.ts, part 1: countPaths(deviceId) without a memo
RECURSIVE countPathsToOut(_, _)
countPathsToOut(graph, deviceId) ==
  IF deviceId = "out" THEN 1
  ELSE IF deviceId \in DOMAIN graph
       THEN SumSeq([i \in 1..Len(graph[deviceId]) |->
                      countPathsToOut(graph, graph[deviceId][i])])
       ELSE 0

\* the graphs of the input: five devices, whose lines point forward in one
\* of three orders, which keeps the graph acyclic; the outputs of a line
\* are in that order, and a device without outputs has no line
Graphs ==
  LET orders == { <<"svr", "aaa", "dac", "fft", "out">>,
                  <<"svr", "fft", "aaa", "dac", "out">>,
                  <<"aaa", "svr", "dac", "out", "fft">> }
      at(order, d) == CHOOSE k \in 1..Len(order) : order[k] = d
      outputs(order, edges, i) ==
        SelectSeq(SubSeq(order, i + 1, Len(order)),
                  LAMBDA d : <<i, at(order, d)>> \in edges)
      graphs(order) ==
        {[d \in {order[e[1]] : e \in edges} |-> outputs(order, edges, at(order, d))] :
           edges \in SUBSET {<<i, j>> \in (1..Len(order)) \X (1..Len(order)) : i < j}}
  IN UNION {graphs(order) : order \in orders}

InitPaths ==
  /\ PackingOff
  /\ day9 = Off
  /\ day10 = Off
  /\ day11 \in {[st |-> "calls", graph |-> g, memo |-> EmptyMap, values |-> <<>>,
                 case1 |-> 0, case2 |-> 0] : g \in Graphs}
  /\ day5 = Off
  /\ day4 = Off
  /\ vis = Off

\* the next countPaths call of the two products
CallCountPaths ==
  /\ day11.st = "calls"
  /\ Len(day11.values) < Len(SegmentCalls)
  /\ LET call == SegmentCalls[Len(day11.values) + 1]
         out == countPaths(day11.graph, day11.memo, call[1], call[2])
     IN day11' = [day11 EXCEPT !.memo = out.memo,
                               !.values = Append(@, out.value)]
  /\ UNCHANGED <<gv, gp, shapes, region, pc, result, variantCache, placementCache,
                 shapeCellCounts, matrix, links, stack, probe, calls>>
  /\ UNCHANGED <<day9, day10, day5, day4, vis>>

\* case1 and case2 are the products; console.log(case1 + case2)
ReportPaths ==
  /\ day11.st = "calls"
  /\ Len(day11.values) = Len(SegmentCalls)
  /\ day11' = [day11 EXCEPT
                 !.st = "done",
                 !.case1 = day11.values[1] * day11.values[2] * day11.values[3],
                 !.case2 = day11.values[4] * day11.values[5] * day11.values[6]]
  /\ UNCHANGED <<gv, gp, shapes, region, pc, result, variantCache, placementCache,
                 shapeCellCounts, matrix, links, stack, probe, calls>>
  /\ UNCHANGED <<day9, day10, day5, day4, vis>>

SpecPaths == InitPaths /\ [][CallCountPaths \/ ReportPaths]_vars

\* Reference: the paths from a to b as sequences of devices.
RECURSIVE PathsBetween(_, _, _)
PathsBetween(graph, a, b) ==
  IF a = b THEN {<<a>>}
  ELSE IF a \in DOMAIN graph
       THEN UNION {{<<a>> \o p : p \in PathsBetween(graph, graph[a][i], b)} :
                     i \in 1..Len(graph[a])}
       ELSE {}

Devices == {"svr", "dac", "fft", "out", "aaa"}

Visits(p, d) == \E i \in 1..Len(p) : p[i] = d

\* C23: case1 + case2 is the number of paths from svr to out that visit both
\* dac and fft, and every memoized value is the number of paths from its
\* start to its end counted without the memo.
C23_PathsThroughBoth ==
  /\ day11.st = "done" =>
       day11.case1 + day11.case2 =
         Cardinality({p \in PathsBetween(day11.graph, "svr", "out") :
                        Visits(p, "dac") /\ Visits(p, "fft")})
  /\ day11.st # "off" =>
       \A s \in Devices, e \in Devices :
         MemoKey(s, e) \in DOMAIN day11.memo =>
           /\ day11.memo[MemoKey(s, e)] = Cardinality(PathsBetween(day11.graph, s, e))
           /\ e = "out" => day11.memo[MemoKey(s, e)] = countPathsToOut(day11.graph, s)

\* a graph with paths through both devices and paths that miss one, counted
\* with a memo entry that was read again
C23_SomeThroughBoth ==
  /\ day11.st = "done"
  /\ day11.case1 + day11.case2 >= 2
  /\ Cardinality(PathsBetween(day11.graph, "svr", "out")) > day11.case1 + day11.case2
  /\ Cardinality(PathsBetween(day11.graph, "aaa", "out")) >= 2

----------------------------------------------------------------------------
(* Day 5 part 2: the range merge of src/unnamed/part_000. A range is a     *)
(* pair <<start, end>>.                                                    *)

\* the ids of the input ranges
MaxId == 4
\* the ranges of the input
MaxRanges == 3

\* [...ranges].sort((a, b) => a[0] - b[0]): a stable sort by start
RECURSIVE SortByStart(_)
SortByStart(ranges) ==
  IF ranges = <<>> THEN <<>>
  ELSE LET sorted == SortByStart(SubSeq(ranges, 1, Len(ranges) - 1))
           r == ranges[Len(ranges)]
           k == Cardinality({i \in DOMAIN sorted : sorted[i][1] <= r[1]})
       IN SubSeq(sorted, 1, k) \o <<r>> \o SubSeq(sorted, k + 1, Len(sorted))

\* a merge that takes the end of the current range for the end of the last
MergeStepNoMax(mergedRanges, range) ==
  IF mergedRanges = <<>> THEN <<range>>
  ELSE IF range[1] <= mergedRanges[Len(mergedRanges)][2] + 1
       THEN [mergedRanges EXCEPT ![Len(mergedRanges)][2] = range[2]]
       ELSE Append(mergedRanges, range)

\* the body of the merge loop for the range [start, end]
MergeStep(mergedRanges, range) ==
  IF mergedRanges = <<>> THEN <<range>>
  ELSE IF range[1] <= mergedRanges[Len(mergedRanges)][2] + 1
       THEN [mergedRanges EXCEPT ![Len(mergedRanges)][2] = Max({@, range[2]})]
       ELSE Append(mergedRanges, range)

\* the ranges of the input: start <= end, in any order, repeats allowed
RangeLists ==
  UNION {[1..n -> {r \in (0..MaxId) \X (0..MaxId) : r[1] <= r[2]}] : n \in 0..MaxRanges}

InitRanges ==
  /\ PackingOff
  /\ day9 = Off
  /\ day10 = Off
  /\ day11 = Off
  /\ day5 \in {[st |-> "merge", ranges |-> rs, sortedRanges |-> SortByStart(rs),
                i |-> 1, mergedRanges |-> <<>>, numberOfFreshIds |-> 0] :
                 rs \in RangeLists}
  /\ day4 = Off
  /\ vis = Off

\* one pass of for (const [start, end] of sortedRanges)
MergeNext ==
  /\ day5.st = "merge"
  /\ day5.i <= Len(day5.sortedRanges)
  /\ day5' = [day5 EXCEPT !.mergedRanges = MergeStep(@, day5.sortedRanges[day5.i]),
                          !.i = @ + 1]
  /\ UNCHANGED <<gv, gp, shapes, region, pc, result, variantCache, placementCache,
                 shapeCellCounts, matrix, links, stack, probe, calls>>
  /\ UNCHANGED <<day9, day10, day11, day4, vis>>

\* the merge loop is over: numberOfFreshIds += end - start + 1 for every
\* merged range
CountFreshIds ==
  /\ day5.st = "merge"
  /\ day5.i > Len(day5.sortedRanges)
  /\ day5' = [day5 EXCEPT
                !.st = "done",
                !.numberOfFreshIds =
                   SumSeq([k \in 1..Len(day5.mergedRanges) |->
                             day5.mergedRanges[k][2] - day5.mergedRanges[k][1] + 1])]
  /\ UNCHANGED <<gv, gp, shapes, region, pc, result, variantCache, placementCache,
                 shapeCellCounts, matrix, links, stack, probe, calls>>
  /\ UNCHANGED <<day9, day10, day11, day4, vis>>

SpecRanges == InitRanges /\ [][MergeNext \/ CountFreshIds]_vars

\* the integers of a list of ranges
IdsOf(ranges) == UNION {ranges[i][1]..ranges[i][2] : i \in DOMAIN ranges}

\* C24: after the merge loop the merged ranges are ordered by start, each
\* starts more than 1 above the end of the one before, their union is the
\* union of the input ranges, and numberOfFreshIds is the size of that union.
C24_MergedRanges ==
  day5.st = "done" =>
    /\ \A k \in 1..(Len(day5.mergedRanges) - 1) :
         /\ day5.mergedRanges[k][1] < day5.mergedRanges[k + 1][1]
         /\ day5.mergedRanges[k + 1][1] > day5.mergedRanges[k][2] + 1
    /\ \A k \in DOMAIN day5.mergedRanges :
         day5.mergedRanges[k][1] <= day5.mergedRanges[k][2]
    /\ IdsOf(day5.mergedRanges) = IdsOf(day5.ranges)
    /\ day5.numberOfFreshIds = Cardinality(IdsOf(day5.ranges))

\* three unsorted ranges, one swallowed by an earlier longer one, which leave
\* two merged ranges
C24_MergedAndKept ==
  /\ day5.st = "done"
  /\ Len(day5.ranges) = 3
  /\ day5.sortedRanges # day5.ranges
  /\ Len(day5.mergedRanges) = 2
  /\ \E k \in 1..2 : day5.sortedRanges[k + 1][2] < day5.sortedRanges[k][2]

----------------------------------------------------------------------------
\* C25: every variant of a shape has as many filled cells as the shape's
\* matrix, the count getShapeCellCount takes for the area pruning, and so
\* has every placement of the shape as many cell indices.
C25_CellCountKept ==
  /\ \A v \in 1..Len(gp.variants) :
       FilledCount(gp.variants[v]) = MatrixCellCount(gp.shape)
  /\ \A k \in 1..Len(gp.placements) :
       Len(gp.placements[k]) = MatrixCellCount(gp.shape)

\* a shape of four cells with an empty middle row, several variants and
\* several placements of it returned
C25_GappedShapePlaced ==
  /\ gp.st = "returned"
  /\ MatrixCellCount(gp.shape) = 4
  /\ \A x \in 4..6 : gp.shape.matrix[x] = 0
  /\ Len(gp.variants) >= 2
  /\ Len(gp.placements) >= 2

\* in a canFitRegion call the cached count of a catalog shape is the count of
\* its matrix, and every cached placement of the shape has that many cells
CachedCountIsPlaced ==
  \A i \in 1..Len(shapes) :
    shapes[i].id \in DOMAIN shapeCellCounts =>
      /\ shapeCellCounts[shapes[i].id] = MatrixCellCount(shapes[i])
      /\ PlacementKey(shapes[i], region.width, region.height) \in DOMAIN placementCache =>
           \A k \in 1..Len(placementCache[PlacementKey(shapes[i], region.width,
                                                       region.height)]) :
             Len(placementCache[PlacementKey(shapes[i], region.width,
                                             region.height)][k]) =
               shapeCellCounts[shapes[i].id]

----------------------------------------------------------------------------
(* Day 4: the repeated sweep of src/4/index.ts (src/unnamed/part_006 is    *)
(* the same loop written with while and a flag). matrix is a list of rows  *)
(* of "@" and "."; rows and columns are 1-based here.                      *)

\* the rows and columns of the grids of which every filling is tried
MaxRows == 3
MaxCols == 3
\* the side of the larger grids, which can hold rolls that stay
BlockSide == 4
\* the cells by which a larger grid differs from the full block of rolls
MaxHoles == 2

directions ==
  << <<-1, -1>>, <<-1, 0>>, <<-1, 1>>, <<0, -1>>, <<0, 1>>, <<1, -1>>, <<1, 0>>, <<1, 1>> >>

\* a roll stays only with fewer than 3 rolls around it
checkPositionOfThree(grid, row, col) ==
  Cardinality({d \in 1..Len(directions) :
                 /\ row + directions[d][1] \in 1..Len(grid)
                 /\ col + directions[d][2] \in 1..Len(grid[row + directions[d][1]])
                 /\ grid[row + directions[d][1]][col + directions[d][2]] = "@"}) < 3

\* checkPosition on the matrix grid: matrix[row + dr]?.[col + dc] === "@" holds for fewer than 4 directions
checkPosition(grid, row, col) ==
  Cardinality({d \in 1..Len(directions) :
                 /\ row + directions[d][1] \in 1..Len(grid)
                 /\ col + directions[d][2] \in 1..Len(grid[row + directions[d][1]])
                 /\ grid[row + directions[d][1]][col + directions[d][2]] = "@"}) < 4

\* the script before its first sweep; the do body starts with
\* previousTotalValid = totalValidRolls
StartSweep(input) ==
  [st |-> "sweep", input |-> input, matrix |-> input, row |-> 1, col |-> 1,
   previousTotalValid |-> 0, totalValidRolls |-> 0]

\* one step of the loops at s: the body of the inner loop at (row, col) with
\* the move to the next cell, or, after the last row, the while test and the
\* start of the next sweep
SweepStep(s) ==
  IF s.row <= Len(s.matrix)
  THEN IF s.col > Len(s.matrix[s.row])
       THEN [s EXCEPT !.row = @ + 1, !.col = 1]
       ELSE LET take == s.matrix[s.row][s.col] = "@" /\ checkPosition(s.matrix, s.row, s.col)
                last == s.col = Len(s.matrix[s.row])
            IN [s EXCEPT !.totalValidRolls = IF take THEN @ + 1 ELSE @,
                         !.matrix = IF take THEN [@ EXCEPT ![s.row][s.col] = "."] ELSE @,
                         !.row = IF last THEN @ + 1 ELSE @,
                         !.col = IF last THEN 1 ELSE @ + 1]
  ELSE IF s.previousTotalValid # s.totalValidRolls
       THEN [s EXCEPT !.previousTotalValid = s.totalValidRolls, !.row = 1, !.col = 1]
       ELSE [s EXCEPT !.st = "done"]

\* the grids of the input: every filling of up to MaxRows x MaxCols cells,
\* and the blocks of side BlockSide with up to MaxHoles + 4 cells empty, the
\* four corners among them or not
Grids ==
  LET BlockWithout(empty) ==
        [r \in 1..BlockSide |-> [c \in 1..BlockSide |->
           IF <<r, c>> \in empty THEN "." ELSE "@"]]
  IN
  UNION {[1..h -> [1..w -> {"@", "."}]] : h \in 1..MaxRows, w \in 1..MaxCols}
  \cup
  {BlockWithout(holes \cup corners) :
     holes \in {hs \in SUBSET ((1..BlockSide) \X (1..BlockSide)) :
                  Cardinality(hs) <= MaxHoles},
     corners \in {{}, {1, BlockSide} \X {1, BlockSide}}}

InitRolls ==
  /\ PackingOff
  /\ day9 = Off
  /\ day10 = Off
  /\ day11 = Off
  /\ day5 = Off
  /\ day4 \in {StartSweep(g) : g \in Grids}
  /\ vis = Off

\* the inner loop body at (row, col)
SweepCell ==
  /\ day4.st = "sweep"
  /\ day4.row <= Len(day4.matrix)
  /\ day4' = SweepStep(day4)
  /\ UNCHANGED <<gv, gp, shapes, region, pc, result, variantCache, placementCache,
                 shapeCellCounts, matrix, links, stack, probe, calls>>
  /\ UNCHANGED <<day9, day10, day11, day5, vis>>

\* while (previousTotalValid !== totalValidRolls)
SweepEnd ==
  /\ day4.st = "sweep"
  /\ day4.row > Len(day4.matrix)
  /\ day4' = SweepStep(day4)
  /\ UNCHANGED <<gv, gp, shapes, region, pc, result, variantCache, placementCache,
                 shapeCellCounts, matrix, links, stack, probe, calls>>
  /\ UNCHANGED <<day9, day10, day11, day5, vis>>

SpecRolls == InitRolls /\ [][SweepCell \/ SweepEnd]_vars

\* the cells of a grid that hold a roll
RollsOf(grid) ==
  UNION {{<<r, c>> : c \in {k \in 1..Len(grid[r]) : grid[r][k] = "@"}} :
           r \in 1..Len(grid)}

\* the rolls of s among the 8 neighbours of rc
Around(s, rc) ==
  {n \in s : n # rc /\ n[1] - rc[1] \in -1..1 /\ n[2] - rc[2] \in -1..1}

\* C26: during the sweep a cell only ever changes from "@" to ".", and when
\* the loop exits no remaining roll has fewer than 4 rolls among its 8
\* neighbours and totalValidRolls is the number of rolls of the initial grid
\* minus the number of rolls remaining.
C26_SweepRemovesToFixpoint ==
  /\ [][day4.st = "sweep" =>
          \A r \in 1..Len(day4.matrix) : \A c \in 1..Len(day4.matrix[r]) :
            day4'.matrix[r][c] # day4.matrix[r][c] =>
              day4.matrix[r][c] = "@" /\ day4'.matrix[r][c] = "."]_vars
  /\ [](day4.st = "done" =>
          /\ \A rc \in RollsOf(day4.matrix) :
               Cardinality(Around(RollsOf(day4.matrix), rc)) >= 4
          /\ day4.totalValidRolls =
               Cardinality(RollsOf(day4.input)) - Cardinality(RollsOf(day4.matrix)))

\* the loop has exited after removing rolls in more than one sweep, and
\* rolls remain
C26_SomeRemain ==
  /\ day4.st = "done"
  /\ RollsOf(day4.matrix) # {}
  /\ day4.totalValidRolls >= 3
  /\ day4.matrix[1][1] = "." /\ day4.input[1][1] = "@"

----------------------------------------------------------------------------
(* GridVisualization: src/4/visualization/src/GridVisualization.tsx. A     *)
(* cell is a record [state, removeTime]. Time is kept relative to the      *)
(* clock: removeTime is the stamp minus Date.now(), 0 when a cell is       *)
(* stamped and falling as time passes, down to LongAgo; the timers hold    *)
(* the time left until they are due.                                       *)

\* setTimeout(..., 150)
StepDelay == 150
\* setInterval(..., 100)
FadeEvery == 100
\* Date.now() - cell.removeTime > 800
FadeAfter == 800
\* the step of the clock: every delay of the component is a multiple of it
TimeUnit == StepDelay - FadeEvery
\* a stamp more than FadeAfter old, as the removeTime: 0 of a fresh cell is
LongAgo == 0 - (FadeAfter + TimeUnit)

\* the changes of restartKey
MaxRestarts == 1
\* the grids shown have at most MaxVisCells cells or at most MaxVisHoles
\* cells without a roll
MaxVisCells == 6
MaxVisHoles == 0

createInitialGrid(initialMatrix) ==
  [r \in 1..Len(initialMatrix) |-> [c \in 1..Len(initialMatrix[r]) |->
     [state |-> IF initialMatrix[r][c] = "@" THEN "active" ELSE "empty",
      removeTime |-> LongAgo]]]

\* a cell is removed only with fewer than 3 active cells around it
checkPositionCellsOfThree(gridState, row, col) ==
  Cardinality({d \in 1..Len(directions) :
                 /\ row + directions[d][1] >= 1
                 /\ row + directions[d][1] <= Len(gridState)
                 /\ col + directions[d][2] >= 1
                 /\ col + directions[d][2] <= Len(gridState[1])
                 /\ gridState[row + directions[d][1]][col + directions[d][2]].state
                      = "active"}) < 3

\* a cell is removed already with fewer than 5 active cells around it
checkPositionCellsOfFive(gridState, row, col) ==
  Cardinality({d \in 1..Len(directions) :
                 /\ row + directions[d][1] >= 1
                 /\ row + directions[d][1] <= Len(gridState)
                 /\ col + directions[d][2] >= 1
                 /\ col + directions[d][2] <= Len(gridState[1])
                 /\ gridState[row + directions[d][1]][col + directions[d][2]].state
                      = "active"}) < 5

\* checkPosition(gridState, row, col) of the component; rows and cols are
\* the sizes of initialMatrix and of its first row
checkPositionCells(gridState, row, col) ==
  Cardinality({d \in 1..Len(directions) :
                 /\ row + directions[d][1] >= 1
                 /\ row + directions[d][1] <= Len(gridState)
                 /\ col + directions[d][2] >= 1
                 /\ col + directions[d][2] <= Len(gridState[1])
                 /\ gridState[row + directions[d][1]][col + directions[d][2]].state
                      = "active"}) < 4

\* the cells the updater of the step timer marks
Marked(prevGrid) ==
  {rc \in (1..Len(prevGrid)) \X (1..Len(prevGrid[1])) :
     /\ prevGrid[rc[1]][rc[2]].state = "active"
     /\ checkPositionCells(prevGrid, rc[1], rc[2])}

\* newGrid of the updater of the step timer
StepGrid(prevGrid, currentTime) ==
  [r \in 1..Len(prevGrid) |-> [c \in 1..Len(prevGrid[r]) |->
     IF <<r, c>> \in Marked(prevGrid)
     THEN [state |-> "removing", removeTime |-> currentTime]
     ELSE prevGrid[r][c]]]

\* the rounds of the step timer run until one changes nothing
RECURSIVE RunRounds(_)
RunRounds(prevGrid) ==
  IF Marked(prevGrid) = {} THEN prevGrid ELSE RunRounds(StepGrid(prevGrid, 0))

\* the inputs of the component
VisGrids ==
  {g \in Grids :
     \/ Len(g) * Len(g[1]) <= MaxVisCells
     \/ Cardinality({rc \in (1..Len(g)) \X (1..Len(g[1])) : g[rc[1]][rc[2]] = "."})
          <= MaxVisHoles}

InitVis ==
  /\ PackingOff
  /\ day9 = Off
  /\ day10 = Off
  /\ day11 = Off
  /\ day5 = Off
  /\ day4 = Off
  /\ vis \in {[initialMatrix |-> g, restartKey |-> 0, grid |-> createInitialGrid(g),
               step |-> 0, isComplete |-> FALSE, removedCount |-> 0,
               timer |-> [pending |-> TRUE, left |-> StepDelay],
               interval |-> FadeEvery] : g \in VisGrids}

\* the step timer fires: the updater of setGrid, with setStep and
\* setRemovedCount or setIsComplete, and the step effect run again
StepTimer ==
  /\ vis # Off
  /\ vis.timer.pending
  /\ vis.timer.left = 0
  /\ vis' = [vis EXCEPT
               !.grid = StepGrid(@, 0),
               !.step = IF Marked(vis.grid) # {} THEN @ + 1 ELSE @,
               !.removedCount = @ + Cardinality(Marked(vis.grid)),
               !.isComplete = Marked(vis.grid) = {},
               !.timer = IF Marked(vis.grid) # {}
                         THEN [pending |-> TRUE, left |-> StepDelay]
                         ELSE [pending |-> FALSE, left |-> 0]]
  /\ UNCHANGED <<gv, gp, shapes, region, pc, result, variantCache, placementCache,
                 shapeCellCounts, matrix, links, stack, probe, calls>>
  /\ UNCHANGED <<day9, day10, day11, day5, day4>>

\* the fade interval fires: the updater of setGrid turns the removing cells
\* stamped more than FadeAfter ago to empty, and the interval runs on
FadeInterval ==
  /\ vis # Off
  /\ vis.interval = 0
  /\ vis' = [vis EXCEPT
               !.grid = [r \in 1..Len(@) |-> [c \in 1..Len(@[r]) |->
                           IF @[r][c].state = "removing"
                              /\ 0 - @[r][c].removeTime > FadeAfter
                           THEN [@[r][c] EXCEPT !.state = "empty"]
                           ELSE @[r][c]]],
               !.interval = FadeEvery]
  /\ UNCHANGED <<gv, gp, shapes, region, pc, result, variantCache, placementCache,
                 shapeCellCounts, matrix, links, stack, probe, calls>>
  /\ UNCHANGED <<day9, day10, day11, day5, day4>>

\* a reset that leaves the step timer as it is
RestartKeepsTimer ==
  /\ vis # Off
  /\ vis.restartKey < MaxRestarts
  /\ vis' = [vis EXCEPT
               !.restartKey = @ + 1,
               !.grid = createInitialGrid(vis.initialMatrix),
               !.step = 0,
               !.isComplete = FALSE,
               !.removedCount = 0]
  /\ UNCHANGED <<gv, gp, shapes, region, pc, result, variantCache, placementCache,
                 shapeCellCounts, matrix, links, stack, probe, calls>>
  /\ UNCHANGED <<day9, day10, day11, day5, day4>>

\* restartKey changes: the reset effect, and the step effect run again when
\* step or isComplete changed by it
Restart ==
  /\ vis # Off
  /\ vis.restartKey < MaxRestarts
  /\ vis' = [vis EXCEPT
               !.restartKey = @ + 1,
               !.grid = createInitialGrid(vis.initialMatrix),
               !.step = 0,
               !.isComplete = FALSE,
               !.removedCount = 0,
               !.timer = IF vis.step # 0 \/ vis.isComplete
                         THEN [pending |-> TRUE, left |-> StepDelay]
                         ELSE @]
  /\ UNCHANGED <<gv, gp, shapes, region, pc, result, variantCache, placementCache,
                 shapeCellCounts, matrix, links, stack, probe, calls>>
  /\ UNCHANGED <<day9, day10, day11, day5, day4>>

\* time passes: the stamps fall behind the clock and the timers come due; a
\* timer that is due fires now or later
Tick ==
  /\ vis # Off
  /\ vis' = [vis EXCEPT
               !.grid = [r \in 1..Len(@) |-> [c \in 1..Len(@[r]) |->
                           [@[r][c] EXCEPT !.removeTime = Max({@ - TimeUnit, LongAgo})]]],
               !.timer.left = Max({@ - TimeUnit, 0}),
               !.interval = Max({@ - TimeUnit, 0})]
  /\ UNCHANGED <<gv, gp, shapes, region, pc, result, variantCache, placementCache,
                 shapeCellCounts, matrix, links, stack, probe, calls>>
  /\ UNCHANGED <<day9, day10, day11, day5, day4>>

SpecVis == InitVis /\ [][StepTimer \/ FadeInterval \/ Restart \/ Tick]_vars

\* time passes and a timer that is due fires
FairVis ==
  /\ SpecVis
  /\ WF_vars(Tick)
  /\ WF_vars(StepTimer)
  /\ WF_vars(FadeInterval)

\* the active cells of a grid of cells
ActiveOf(cells) ==
  {rc \in (1..Len(cells)) \X (1..Len(cells[1])) : cells[rc[1]][rc[2]].state = "active"}

\* a timer is pending exactly while the animation is not complete
TimerWhileRunning == vis # Off => (vis.timer.pending = ~vis.isComplete)

\* when the animation is complete its active cells are those the rounds
\* leave, and removedCount is the number of rolls the rounds removed
CompleteIsRounds ==
  (vis # Off /\ vis.isComplete) =>
    /\ ActiveOf(vis.grid) = ActiveOf(RunRounds(createInitialGrid(vis.initialMatrix)))
    /\ vis.removedCount =
         Cardinality(RollsOf(vis.initialMatrix)) - Cardinality(ActiveOf(vis.grid))

\* C27: the in-place sweep of the script and the rounds of the visualizer,
\* each deciding all removals from the previous round's grid, end with the
\* same rolls remaining and the same number of rolls removed.
C27_SweepEqualsRounds ==
  day4.st = "done" =>
    /\ RollsOf(day4.matrix) = ActiveOf(RunRounds(createInitialGrid(day4.input)))
    /\ day4.totalValidRolls =
         Cardinality(RollsOf(day4.input)) -
         Cardinality(ActiveOf(RunRounds(createInitialGrid(day4.input))))

\* the script at the end of the sweep it is in
RECURSIVE AfterSweep(_)
AfterSweep(s) == IF s.row > Len(s.matrix) THEN s ELSE AfterSweep(SweepStep(s))

\* the script has ended on a grid of which its first sweep and the first
\* round of the visualizer remove different rolls
C27_OrdersDiffer ==
  /\ day4.st = "done"
  /\ day4.totalValidRolls >= 5
  /\ RollsOf(AfterSweep(StartSweep(day4.input)).matrix) #
       ActiveOf(StepGrid(createInitialGrid(day4.input), 0))

\* C28: between two restarts a cell only moves from active to removing and
\* from removing to empty; a cell becomes removing only in a step in which
\* it was active with fewer than 4 active neighbours in the previous grid;
\* a restart puts every cell back to its initial state, step to 0 and
\* isComplete to false.
C28_CellsMoveForward ==
  [][vis # Off =>
       /\ vis'.restartKey = vis.restartKey =>
            \A rc \in (1..Len(vis.grid)) \X (1..Len(vis.grid[1])) :
              LET old == vis.grid[rc[1]][rc[2]].state
                  new == vis'.grid[rc[1]][rc[2]].state
              IN /\ new # old =>
                      \/ old = "active" /\ new = "removing"
                      \/ old = "removing" /\ new = "empty"
                 /\ (new = "removing" /\ old # "removing") =>
                      /\ old = "active"
                      /\ Cardinality(Around(ActiveOf(vis.grid), rc)) < 4
                      /\ vis'.step = vis.step + 1
       /\ vis'.restartKey # vis.restartKey =>
            /\ \A rc \in (1..Len(vis.grid)) \X (1..Len(vis.grid[1])) :
                 vis'.grid[rc[1]][rc[2]].state =
                   IF vis.initialMatrix[rc[1]][rc[2]] = "@" THEN "active" ELSE "empty"
            /\ vis'.step = 0
            /\ ~vis'.isComplete]_vars

\* after a restart a cell is empty that held a roll, another is removing and
\* a third is still active
C28_AllThreeStates ==
  /\ vis # Off
  /\ vis.restartKey = MaxRestarts
  /\ \E a, b, c \in RollsOf(vis.initialMatrix) :
       /\ vis.grid[a[1]][a[2]].state = "empty"
       /\ vis.grid[b[1]][b[2]].state = "removing"
       /\ vis.grid[c[1]][c[2]].state = "active"

====
